---- MODULE Spec2Model ----
(***************************************************************************)
(* A model of the openclaw-patcher reconciliation engine (PatchManager in  *)
(* patch-manager.ts and the hunk helpers of diff-converter.ts).            *)
(*                                                                         *)
(* Text is a sequence of one-character strings.  The three marker lines of *)
(* the block format ("=== BEFORE ===", "=== AFTER ===", "=== END ===") and *)
(* the line feed are single tokens of such a sequence: the parser's        *)
(* regular expression is not anchored to lines, so a marker matches        *)
(* wherever its characters occur in a text.                                *)
(***************************************************************************)
EXTENDS Integers, Sequences, FiniteSets, TLC

\* ------------------------------------------------------------------ bounds
MaxTextLen == 2
MaxHunks == 2
MaxContentLen == 3
MaxOps == 2
RtMaxText == 1
RtMaxHunks == 2
ClassifyHunks == 2
ClassifyContentLen == 2
RangeVersionLen == 2
CmpVersionLen == 2
ScanContentLen == 2
MaxAssets == 2

\* Characters of hunk texts and file contents.
Alphabet == {"a", "$"}

NL == "\n"
BEFORE == "=== BEFORE ==="
AFTER == "=== AFTER ==="
END == "=== END ==="

\* A value that may be null or undefined is <<>> when it is, <<v>> otherwise.
Null == <<>>
Some(v) == <<v>>
Optional(S) == {Null} \cup {Some(x) : x \in S}

Strings(n) == UNION {[1..k -> Alphabet] : k \in 0..n}

SeqsUpTo(S, n) == UNION {[1..k -> S] : k \in 0..n}

\* ----------------------------------------------------------- string layer

\* 1-based index of the first occurrence of s in c, 0 when s does not occur.
IndexOf(c, s) ==
  LET at == {i \in 1..(Len(c) - Len(s) + 1) : SubSeq(c, i, i + Len(s) - 1) = s}
  IN  IF at = {} THEN 0 ELSE CHOOSE i \in at : \A j \in at : i <= j

\* 1-based index of the first occurrence of s in c at or after position from.
IndexFrom(c, s, from) ==
  LET at == {i \in from..(Len(c) - Len(s) + 1) : SubSeq(c, i, i + Len(s) - 1) = s}
  IN  IF at = {} THEN 0 ELSE CHOOSE i \in at : \A j \in at : i <= j

\* String.prototype.includes
Includes(c, s) == IndexOf(c, s) # 0

\* The replacement text String.prototype.replace builds from a replacement
\* string when the pattern is a string: "$$" is "$", "$&" the matched text,
\* "$`" the text before the match, "$'" the text after it; with no capture
\* groups every other "$" stands for itself.
RECURSIVE GetSubstitution(_, _, _, _)
GetSubstitution(tpl, matched, before, after) ==
  IF tpl = <<>> THEN <<>>
  ELSE IF Head(tpl) = "$" /\ Len(tpl) >= 2 /\ tpl[2] \in {"$", "&", "`", "'"}
  THEN LET rest == GetSubstitution(SubSeq(tpl, 3, Len(tpl)), matched, before, after)
       IN  CASE tpl[2] = "$" -> <<"$">> \o rest
             [] tpl[2] = "&" -> matched \o rest
             [] tpl[2] = "`" -> before \o rest
             [] tpl[2] = "'" -> after \o rest
  ELSE <<Head(tpl)>> \o GetSubstitution(Tail(tpl), matched, before, after)

\* content.replace(oldText, newText) with string arguments: the first
\* occurrence only.
StringReplace(c, old, new) ==
  LET i == IndexOf(c, old)
      before == SubSeq(c, 1, i - 1)
      after == SubSeq(c, i + Len(old), Len(c))
  IN  IF i = 0 THEN c
      ELSE before \o GetSubstitution(new, old, before, after) \o after

\* --------------------------------------------------- hunk parser / applier

Hunk(old, new) == [oldText |-> old, newText |-> new]

Hunks(S) == {Hunk(o, n) : o \in S, n \in S}

RECURSIVE applyDiffHunks(_, _)
applyDiffHunks(content, hunks) ==
  IF hunks = <<>> THEN content
  ELSE LET h == Head(hunks)
           result == IF Includes(content, h.oldText)
                     THEN StringReplace(content, h.oldText, h.newText)
                     ELSE content
       IN  applyDiffHunks(result, Tail(hunks))

\* The matches of
\*   /=== BEFORE ===\n([\s\S]*?)\n=== AFTER ===\n([\s\S]*?)\n=== END ===/g
\* from position pos on, left to right, both groups lazy.
RECURSIVE parseFrom(_, _)
parseFrom(diff, pos) ==
  LET i == IndexFrom(diff, <<BEFORE, NL>>, pos)
      j == IF i = 0 THEN 0 ELSE IndexFrom(diff, <<NL, AFTER, NL>>, i + 2)
      k == IF j = 0 THEN 0 ELSE IndexFrom(diff, <<NL, END>>, j + 3)
  IN  IF k = 0 THEN <<>>
      ELSE <<Hunk(SubSeq(diff, i + 2, j - 1), SubSeq(diff, j + 3, k - 1))>>
           \o parseFrom(diff, k + 2)

parseDiffHunks(diff) == parseFrom(diff, 1)

\* simpleBlock without its branch for pure deletions.
simpleBlock_noDeletion(h) ==
  IF h.oldText # <<>> /\ h.newText # <<>>
  THEN <<<<BEFORE, NL>> \o h.oldText \o <<NL, AFTER, NL>> \o h.newText \o <<NL, END>>>>
  ELSE <<>>

\* One block of hunksToSimpleFormat, or nothing for a hunk it skips.
simpleBlock(h) ==
  IF h.oldText # <<>> /\ h.newText # <<>>
  THEN <<<<BEFORE, NL>> \o h.oldText \o <<NL, AFTER, NL>> \o h.newText \o <<NL, END>>>>
  ELSE IF h.oldText # <<>> /\ h.newText = <<>>
  THEN <<<<BEFORE, NL>> \o h.oldText \o <<NL, AFTER, NL, NL, END>>>>
  ELSE <<>>

RECURSIVE simpleBlocks(_)
simpleBlocks(hunks) ==
  IF hunks = <<>> THEN <<>> ELSE simpleBlock(Head(hunks)) \o simpleBlocks(Tail(hunks))

\* blocks.join("\n\n")
RECURSIVE joinBlocks(_)
joinBlocks(blocks) ==
  IF blocks = <<>> THEN <<>>
  ELSE IF Len(blocks) = 1 THEN blocks[1]
  ELSE blocks[1] \o <<NL, NL>> \o joinBlocks(Tail(blocks))

hunksToSimpleFormat(hunks) == joinBlocks(simpleBlocks(hunks))

\* ------------------------------------------------------ version matcher

Digits == {"0", "1", "2", "3", "4", "5", "6", "7", "8", "9"}
DigitVal(c) == CASE c = "0" -> 0 [] c = "1" -> 1 [] c = "2" -> 2 [] c = "3" -> 3
                 [] c = "4" -> 4 [] c = "5" -> 5 [] c = "6" -> 6 [] c = "7" -> 7
                 [] c = "8" -> 8 [] c = "9" -> 9

NaN == -1

\* Number(s) for a component of a version string: "" is 0, a run of digits its
\* decimal value, any other text of the modelled alphabet NaN.
RECURSIVE digitsValue(_, _)
digitsValue(s, acc) ==
  IF s = <<>> THEN acc ELSE digitsValue(Tail(s), 10 * acc + DigitVal(Head(s)))

ToNumber(s) == IF \A i \in 1..Len(s) : s[i] \in Digits THEN digitsValue(s, 0) ELSE NaN

\* s.split(sep) for a one-character separator.
RECURSIVE splitOn(_, _)
splitOn(s, sep) ==
  LET i == IndexOf(s, <<sep>>)
  IN  IF i = 0 THEN <<s>>
      ELSE <<SubSeq(s, 1, i - 1)>> \o splitOn(SubSeq(s, i + 1, Len(s)), sep)

versionParts(v) ==
  LET parts == splitOn(splitOn(v, "-")[1], ".")
  IN  [i \in 1..Len(parts) |-> ToNumber(parts[i])]

\* A comparison with NaN is false either way, so the loop moves on.
RECURSIVE compareFrom(_, _, _)
compareFrom(partsA, partsB, i) ==
  IF i > Len(partsA) /\ i > Len(partsB) THEN 0
  ELSE LET numA == IF i <= Len(partsA) THEN partsA[i] ELSE 0
           numB == IF i <= Len(partsB) THEN partsB[i] ELSE 0
       IN  IF numA # NaN /\ numB # NaN /\ numA < numB THEN -1
           ELSE IF numA # NaN /\ numB # NaN /\ numA > numB THEN 1
           ELSE compareFrom(partsA, partsB, i + 1)

compareVersions(a, b) == compareFrom(versionParts(a), versionParts(b), 1)

\* A string is truthy when it is neither undefined/null nor empty.
Truthy(opt) == opt # Null /\ opt[1] # <<>>

\* A message: its fixed text and the strings interpolated into it.
Msg(text, args) == [text |-> text, args |-> args]

\* matchVersionRange with its two tests in the other order.
matchVersionRange_maxFirst(version, minVersion, maxVersion) ==
  IF Truthy(maxVersion) /\ compareVersions(version, maxVersion[1]) >= 0
  THEN [matches |-> FALSE,
        reason |-> Msg("Version is at or above maximum",
                      version \o <<" ">> \o maxVersion[1])]
  ELSE IF Truthy(minVersion) /\ compareVersions(version, minVersion[1]) < 0
  THEN [matches |-> FALSE,
        reason |-> Msg("Version is below minimum", version \o <<" ">> \o minVersion[1])]
  ELSE [matches |-> TRUE, reason |-> Msg("Version in range", <<>>)]

matchVersionRange(version, minVersion, maxVersion) ==
  IF Truthy(minVersion) /\ compareVersions(version, minVersion[1]) < 0
  THEN [matches |-> FALSE,
        reason |-> Msg("Version is below minimum", version \o <<" ">> \o minVersion[1])]
  ELSE IF Truthy(maxVersion) /\ compareVersions(version, maxVersion[1]) >= 0
  THEN [matches |-> FALSE,
        reason |-> Msg("Version is at or above maximum",
                      version \o <<" ">> \o maxVersion[1])]
  ELSE [matches |-> TRUE, reason |-> Msg("Version in range", <<>>)]

\* ---------------------------------------------------------- glob matcher

\* The regular expression matchGlob builds: "*" is ".*", "?" is ".", every
\* other character stands for itself, the whole anchored; "." does not match
\* a line terminator.
RECURSIVE matchGlob(_, _)
matchGlob(filename, pattern) ==
  IF pattern = <<>> THEN filename = <<>>
  ELSE IF Head(pattern) = "*"
  THEN \/ matchGlob(filename, Tail(pattern))
       \/ /\ filename # <<>>
          /\ Head(filename) # NL
          /\ matchGlob(Tail(filename), pattern)
  ELSE /\ filename # <<>>
       /\ IF Head(pattern) = "?" THEN Head(filename) # NL
          ELSE Head(filename) = Head(pattern)
       /\ matchGlob(Tail(filename), Tail(pattern))


\* ------------------------------------------------------------ the world

Patches == {"p1", "p2"}

\* discoverPatches: the patch directories, sorted by name.
discoverPatches == <<"p1", "p2">>

\* The files of the install tree's bundle directory, in listing order.
DirListing == << <<"x">>, <<"y">> >>
FileNames == {DirListing[i] : i \in 1..Len(DirListing)}

\* Destinations and sources of asset operations.
Dests == {"d1", "d2"}
Srcs == {"s1", "s2"}

VARIABLES
  meta,               \* patch.json of each patch directory: Null when unreadable
  diff,               \* patch.diff of each patch directory: Null when missing
  jsmod,              \* patch.js of each patch directory
  tree,               \* content of each file of the bundle directory
  bak,                \* content of each file's .bak sibling, Null when there is none
  destKind,           \* what lies at each asset destination
  srcKind,            \* what lies at each asset source of the patch's assets/
  pkgVersion,         \* version of the install root's package.json, Null when unreadable
  backupBeforePatch,  \* config.backupBeforePatch
  stateFile,          \* .patcher-state.json, Null when there is none
  stateFileWritable,  \* whether .patcher-state.json can be written
  state,              \* this.state of the PatchManager
  clock,              \* what new Date() returns next
  last,               \* the last operation: its name, argument, results and I/O
  calls,              \* the operations in flight on the one PatchManager
  pure                \* input and output of a helper applied on its own

vars == <<meta, diff, jsmod, tree, bak, destKind, srcKind, pkgVersion,
          backupBeforePatch, stateFile, stateFileWritable, state, clock, last,
          calls, pure>>

\* What an operation may change, threaded through its steps.  io lists the
\* operation's file-system events in order.
World == [meta |-> meta, tree |-> tree, bak |-> bak, destKind |-> destKind,
          state |-> state, stateFile |-> stateFile, clock |-> clock, io |-> <<>>]

Ev(op, patch, file) == [op |-> op, patch |-> patch, file |-> file]

Logged(w, e) == [w EXCEPT !.io = Append(@, e)]

EmptyState == [lastPatchedVersion |-> Null, lastPatchedAt |-> Null,
               patchResults |-> [p \in Patches |-> Null]]

Status(name, m, st, message) ==
  [name |-> name, meta |-> m, state |-> st, message |-> message]

\* getInstalledVersion: pkg.version ?? null
getInstalledVersion == pkgVersion

\* resolveTargetFiles: every pattern in turn, every directory entry in listing
\* order; an entry is pushed once per pattern it matches.
RECURSIVE matchesOf(_, _)
matchesOf(pattern, entries) ==
  IF entries = <<>> THEN <<>>
  ELSE (IF matchGlob(Head(entries), pattern) THEN <<Head(entries)>> ELSE <<>>)
       \o matchesOf(pattern, Tail(entries))

RECURSIVE resolveTargetFiles(_)
resolveTargetFiles(patterns) ==
  IF patterns = <<>> THEN <<>>
  ELSE matchesOf(Head(patterns), DirListing) \o resolveTargetFiles(Tail(patterns))


\* An operation's outcome: the world it leaves and the status it returns.
Out(w, status) == [w |-> w, status |-> status]

\* -------------------------------------------------- programmable edits

\* The patch modules of the model.  "template" is JS_PATCH_TEMPLATE with the
\* markers "a" (BUGGY_CODE_MARKER), "b" (FIX_MARKER) and "u"
\* (UPSTREAM_FIX_MARKER) and an apply that replaces the first by the second;
\* "throws" is a module whose apply throws; "none" is a patch.js that cannot
\* be loaded; "strict" is the template with an apply that throws when the
\* first marker is not there; the check of "checkThrows" and the isResolved
\* of "resolvedThrows" throw; "generated" is the module generateJsPatchFromHunks
\* writes for the hunks of an imported PR.
JsModules ==
  {"template", "throws", "none", "strict", "checkThrows", "resolvedThrows", "generated"}

\* The function fn of the module throws.
JsThrows(mod, fn) ==
  \/ mod = "checkThrows" /\ fn = "check"
  \/ mod = "resolvedThrows" /\ fn = "isResolved"

loadJsPatchModule(p) == IF jsmod[p] = "none" THEN Null ELSE Some(jsmod[p])

\* The hunks of the imported PR: text a becomes text b.
GeneratedHunks == <<Hunk(<<"a">>, <<"b">>)>>

\* result = result.replace(old, new), hunk after hunk
RECURSIVE generatedApply(_, _)
generatedApply(hunks, result) ==
  IF hunks = <<>> THEN result
  ELSE generatedApply(Tail(hunks),
                      StringReplace(result, Head(hunks).oldText, Head(hunks).newText))

JsCheck(mod, content) ==
  IF mod \in {"template", "strict"}
  THEN Includes(content, <<"a">>) /\ ~Includes(content, <<"b">>)
  ELSE IF mod = "generated"
  THEN \E i \in 1..Len(GeneratedHunks) : Includes(content, GeneratedHunks[i].oldText)
  ELSE TRUE

JsIsResolved(mod, content) ==
  IF mod \in {"template", "strict"} THEN Includes(content, <<"u">>)
  ELSE IF mod = "generated"
  THEN \A i \in 1..Len(GeneratedHunks) : Includes(content, GeneratedHunks[i].newText)
  ELSE FALSE

\* Null when apply throws.
JsApply(mod, content) ==
  IF mod = "template" \/ (mod = "strict" /\ Includes(content, <<"a">>))
  THEN Some(StringReplace(content, <<"a">>, <<"b">>))
  ELSE IF mod = "generated" THEN Some(generatedApply(GeneratedHunks, content))
  ELSE Null

\* ------------------------------------------------------ asset operator

AssetOp(type, src, dest) == [type |-> type, src |-> src, dest |-> dest]

\* assetInPlace with stat in place of lstat: a link to a regular file at the
\* destination of a copy passes for the file.
assetInPlace_followLinks(w, asset) ==
  CASE asset.type = "symlink" -> w.destKind[asset.dest] = "symlink"
    [] asset.type = "mkdir" -> w.destKind[asset.dest] = "dir"
    [] OTHER -> w.destKind[asset.dest] \in {"file", "symlink"}

\* lstat(dest) fits the operation: a symbolic link, a directory, a regular file.
assetInPlace(w, asset) ==
  CASE asset.type = "symlink" -> w.destKind[asset.dest] = "symlink"
    [] asset.type = "mkdir" -> w.destKind[asset.dest] = "dir"
    [] OTHER -> w.destKind[asset.dest] = "file"

checkAssetPatch(w, p, m) ==
  IF m.assets = Null \/ m.assets[1] = <<>>
  THEN Out(w, Status(p, Some(m), "error", Msg("No assets defined in patch.json", <<>>)))
  ELSE LET assets == m.assets[1]
           anyMissing == \E i \in 1..Len(assets) : ~assetInPlace(w, assets[i])
           w1 == [w EXCEPT !.io = @ \o [i \in 1..Len(assets) |->
                                          Ev("lstat", p, assets[i].dest)]]
       IN  IF anyMissing
           THEN Out(w1, Status(p, Some(m), "pending", Msg("Asset(s) missing", <<>>)))
           ELSE Out(w1, Status(p, Some(m), "applied", Msg("All assets in place", <<>>)))

\* One asset operation: the world after it and, when it throws, the message.
\* A symbolic link at a destination is taken to point to a regular file.
applyAsset(w, p, asset) ==
  LET k == w.destKind[asset.dest]
      put(kind) == [w |-> Logged([w EXCEPT !.destKind[asset.dest] = kind],
                                 Ev(asset.type, p, asset.dest)),
                    err |-> Null]
      fail(text) == [w |-> w, err |-> Some(Msg(text, <<asset.dest>>))]
  IN  CASE asset.type = "mkdir" ->
             IF k \in {"none", "dir"} THEN put("dir") ELSE fail("EEXIST")
        [] asset.type = "symlink" ->
             \* unlink removes a file or a link, not a directory
             IF k = "dir" THEN fail("EEXIST") ELSE put("symlink")
        [] OTHER ->
             IF srcKind[asset.src] = "none" THEN fail("Asset source not found")
             ELSE IF srcKind[asset.src] = "dir"
             THEN (IF k \in {"none", "dir"} THEN put("dir") ELSE fail("EEXIST"))
             ELSE (IF k = "dir" THEN fail("EISDIR")
                   ELSE IF k = "symlink" THEN put("symlink")
                   ELSE put("file"))

\* applyAssetsFrom carrying on with the operations after one that throws.
RECURSIVE applyAssetsFrom_keepGoing(_, _, _, _)
applyAssetsFrom_keepGoing(w, p, assets, i) ==
  IF i > Len(assets) THEN [w |-> w, err |-> Null]
  ELSE IF applyAsset(w, p, assets[i]).err # Null
  THEN [w |-> applyAssetsFrom_keepGoing(w, p, assets, i + 1).w,
        err |-> applyAsset(w, p, assets[i]).err]
  ELSE applyAssetsFrom_keepGoing(applyAsset(w, p, assets[i]).w, p, assets, i + 1)

RECURSIVE applyAssetsFrom(_, _, _, _)
applyAssetsFrom(w, p, assets, i) ==
  IF i > Len(assets) THEN [w |-> w, err |-> Null]
  ELSE LET r == applyAsset(w, p, assets[i])
       IN  IF r.err # Null THEN r ELSE applyAssetsFrom(r.w, p, assets, i + 1)

applyAssetOperations(w, p, m) ==
  IF m.assets = Null \/ m.assets[1] = <<>>
  THEN [w |-> w, err |-> Some(Msg("No assets defined", <<>>))]
  ELSE applyAssetsFrom(w, p, m.assets[1], 1)


\* --------------------------------------------------- patch state machine

\* checkJsFiles with check tested before isResolved.
RECURSIVE checkJsFiles_checkFirst(_, _, _, _, _)
checkJsFiles_checkFirst(w, p, m, mod, files) ==
  IF files = <<>>
  THEN Out(w, Status(p, Some(m), "applied", Msg("Already applied", <<>>)))
  ELSE IF JsCheck(mod, w.tree[Head(files)])
  THEN Out(Logged(w, Ev("readTarget", p, Head(files))),
           Status(p, Some(m), "pending", Msg("Patch needed", <<>>)))
  ELSE IF JsIsResolved(mod, w.tree[Head(files)])
  THEN Out(Logged(w, Ev("readTarget", p, Head(files))),
           Status(p, Some(m), "resolved", Msg("Upstream fix detected", <<>>)))
  ELSE checkJsFiles_checkFirst(Logged(w, Ev("readTarget", p, Head(files))), p, m, mod,
                               Tail(files))

RECURSIVE checkJsFiles(_, _, _, _, _)
checkJsFiles(w, p, m, mod, files) ==
  IF files = <<>>
  THEN Out(w, Status(p, Some(m), "applied", Msg("Already applied", <<>>)))
  ELSE LET f == Head(files)
           w1 == Logged(w, Ev("readTarget", p, f))
           content == w.tree[f]
       IN  IF JsThrows(mod, "isResolved")
           THEN Out(w1, Status(p, Some(m), "error", Msg("Check failed", <<"isResolved">>)))
           ELSE IF JsIsResolved(mod, content)
           THEN Out(w1, Status(p, Some(m), "resolved", Msg("Upstream fix detected", <<>>)))
           ELSE IF JsThrows(mod, "check")
           THEN Out(w1, Status(p, Some(m), "error", Msg("Check failed", <<"check">>)))
           ELSE IF JsCheck(mod, content)
           THEN Out(w1, Status(p, Some(m), "pending", Msg("Patch needed", <<>>)))
           ELSE checkJsFiles(w1, p, m, mod, Tail(files))

checkJsPatch(w, p, m, targetFiles) ==
  LET patchModule == loadJsPatchModule(p)
  IN  IF patchModule = Null
      THEN Out(w, Status(p, Some(m), "error", Msg("Could not load patch.js", <<>>)))
      ELSE checkJsFiles(w, p, m, patchModule[1], targetFiles)

AllNewPresent(hunks, content) ==
  \A i \in 1..Len(hunks) : Includes(content, hunks[i].newText)

AllOldPresent(hunks, content) ==
  \A i \in 1..Len(hunks) : Includes(content, hunks[i].oldText)

\* classifyContent with its two tests in the other order.
classifyContent_oldFirst(hunks, content) ==
  IF AllOldPresent(hunks, content)
  THEN [state |-> "pending", message |-> Msg("Patch needed", <<>>)]
  ELSE IF AllNewPresent(hunks, content)
  THEN [state |-> "applied", message |-> Msg("Already applied", <<>>)]
  ELSE [state |-> "resolved",
        message |-> Msg("Original code no longer present; upstream may have fixed this",
                        <<>>)]

\* The verdict of checkDiffPatch on the content of a file.
classifyContent(hunks, content) ==
  IF AllNewPresent(hunks, content)
  THEN [state |-> "applied", message |-> Msg("Already applied", <<>>)]
  ELSE IF AllOldPresent(hunks, content)
  THEN [state |-> "pending", message |-> Msg("Patch needed", <<>>)]
  ELSE [state |-> "resolved",
        message |-> Msg("Original code no longer present; upstream may have fixed this",
                        <<>>)]

\* The verdict on the file f as a status.
checkDiffFile(w, p, m, f, verdict) ==
  Out(Logged(w, Ev("readTarget", p, f)), Status(p, Some(m), verdict.state, verdict.message))

\* checkDiffHunks without its test for an empty hunk list.
checkDiffHunks_anyList(w, p, m, targetFiles, hunks) ==
  IF targetFiles = <<>>
  THEN Out(w, Status(p, Some(m), "error", Msg("No target files to check", <<>>)))
  ELSE checkDiffFile(w, p, m, Head(targetFiles),
                     classifyContent(hunks, w.tree[Head(targetFiles)]))

\* The body of the loop over targetFiles returns on each of its three paths,
\* so only the first file is inspected.
checkDiffHunks(w, p, m, targetFiles, hunks) ==
  IF hunks = <<>>
  THEN Out(w, Status(p, Some(m), "error", Msg("No valid hunks in patch.diff", <<>>)))
  ELSE IF targetFiles = <<>>
  THEN Out(w, Status(p, Some(m), "error", Msg("No target files to check", <<>>)))
  ELSE checkDiffFile(w, p, m, Head(targetFiles),
                     classifyContent(hunks, w.tree[Head(targetFiles)]))

checkDiffPatch(w, p, m, targetFiles) ==
  IF diff[p] = Null
  THEN Out(w, Status(p, Some(m), "error", Msg("Check failed", <<"ENOENT">>)))
  ELSE checkDiffHunks(w, p, m, targetFiles, parseDiffHunks(diff[p][1]))

\* An exception that leaves the operation: the promise of checkPatch is
\* rejected.  It is carried as a status of state "threw", which no caller
\* takes for a result.
Thrown(w, p, m, text) == Out(w, Status(p, Some(m), "threw", Msg(text, <<>>)))

\* A pass ended by an exception: its promise is rejected, there are no results.
Threw(results) == results # <<>> /\ results[Len(results)].state = "threw"

\* checkPatch from its version rule on.  resolveTargetFiles iterates over
\* meta.targetFiles outside any try: a record without the list throws.
checkVersioned(w, p, m) ==
  LET currentVersion == getInstalledVersion
      versionMatch == matchVersionRange(currentVersion[1], m.minVersion, m.maxVersion)
      targetFiles == resolveTargetFiles(m.targetFiles)
  IN  IF Truthy(currentVersion) /\ ~versionMatch.matches
      THEN Out(w, Status(p, Some(m), "disabled", versionMatch.reason))
      ELSE IF m.type = "asset"
      THEN checkAssetPatch(w, p, m)
      ELSE IF ~m.hasTargetFiles
      THEN Thrown(w, p, m, "patterns is not iterable")
      ELSE IF targetFiles = <<>>
      THEN Out(w, Status(p, Some(m), "error", Msg("No files matched patterns", <<>>)))
      ELSE IF m.type = "js"
      THEN checkJsPatch(w, p, m, targetFiles)
      ELSE checkDiffPatch(w, p, m, targetFiles)

\* checkRecord with resolvedAt tested before enabled.
checkRecord_resolvedFirst(w, p, m) ==
  IF m.resolvedAt # Null
  THEN Out(w, Status(p, Some(m), "resolved",
         IF m.resolvedReason # Null THEN m.resolvedReason[1]
         ELSE Msg("Resolved upstream", <<>>)))
  ELSE IF ~m.enabled
  THEN Out(w, Status(p, Some(m), "disabled", Msg("Patch is disabled", <<>>)))
  ELSE checkVersioned(w, p, m)

\* checkPatch on a record that could be read.
checkRecord(w, p, m) ==
  IF ~m.enabled
  THEN Out(w, Status(p, Some(m), "disabled", Msg("Patch is disabled", <<>>)))
  ELSE IF m.resolvedAt # Null
  THEN Out(w, Status(p, Some(m), "resolved",
         IF m.resolvedReason # Null THEN m.resolvedReason[1]
         ELSE Msg("Resolved upstream", <<>>)))
  ELSE checkVersioned(w, p, m)

\* checkPatch taking a stamped record's word for it.
checkPatch_trustRecord(w, p) ==
  IF w.meta[p] = Null
  THEN Out(w, Status(p, Null, "error", Msg("Missing or invalid patch.json", <<>>)))
  ELSE IF w.meta[p][1].enabled /\ w.meta[p][1].resolvedAt = Null
          /\ w.meta[p][1].appliedAt # Null
  THEN Out(w, Status(p, w.meta[p], "applied", Msg("Already applied", <<>>)))
  ELSE checkRecord(w, p, w.meta[p][1])

checkPatch(w, p) ==
  IF w.meta[p] = Null
  THEN Out(w, Status(p, Null, "error", Msg("Missing or invalid patch.json", <<>>)))
  ELSE checkRecord(w, p, w.meta[p][1])


\* backupTarget whatever config.backupBeforePatch says.
backupTarget_always(w, p, f, content) ==
  Logged([w EXCEPT !.bak[f] = Some(content)], Ev("writeBak", p, f))

\* The backup of a target file's content before it is transformed.
backupTarget(w, p, f, content) ==
  IF backupBeforePatch
  THEN Logged([w EXCEPT !.bak[f] = Some(content)], Ev("writeBak", p, f))
  ELSE w

\* The loop of applyPatch over the target files: read, back up, transform,
\* write.  err is the status message when the loop ends in an error.
RECURSIVE applyTargets(_, _, _, _)
applyTargets(w, p, m, files) ==
  IF files = <<>> THEN [w |-> w, err |-> Null]
  ELSE
    LET f == Head(files)
        content == w.tree[f]
        w1 == Logged(w, Ev("readTarget", p, f))
        w2 == backupTarget(w1, p, f, content)
        patchModule == loadJsPatchModule(p)
        patched == IF m.type = "js" THEN JsApply(patchModule[1], content)
                   ELSE IF diff[p] = Null THEN Null
                   ELSE Some(applyDiffHunks(content, parseDiffHunks(diff[p][1])))
        w3 == Logged([w2 EXCEPT !.tree[f] = patched[1]], Ev("writeTarget", p, f))
    IN  IF m.type = "js" /\ patchModule = Null
        THEN [w |-> w2, err |-> Some(Msg("Could not load patch.js for apply", <<>>))]
        ELSE IF patched = Null
        THEN [w |-> w2, err |-> Some(Msg("Apply failed", <<"transform">>))]
        ELSE applyTargets(w3, p, m, Tail(files))

\* saveState: the whole of this.state replaces the state file; Null when
\* the write throws.
saveState(w) ==
  IF stateFileWritable
  THEN Some(Logged([w EXCEPT !.stateFile = Some(w.state)], Ev("writeState", "", <<>>)))
  ELSE Null

\* The steps of applyPatch after its transform, each given what the steps
\* before it computed: c is the outcome of checkPatch, m the record it read,
\* r the outcome of the transform.

\* await this.saveState() and the return that follows it, or the catch.
applySaved(c, m1, w2, saved) ==
  IF saved = Null
  THEN Out(w2, [c.status EXCEPT !.meta = Some(m1), !.state = "error",
                  !.message = Msg("Apply failed", <<"EACCES">>)])
  ELSE Out(saved[1], [c.status EXCEPT !.meta = Some(m1), !.state = "applied",
         !.message = Msg(IF m1.type = "asset" THEN "Applied asset(s)" ELSE "Applied file(s)",
                         <<ToString(IF m1.type = "asset" THEN Len(m1.assets[1])
                                    ELSE Len(resolveTargetFiles(m1.targetFiles)))>>)])

\* this.state.patchResults[patchName] = {...}
applyRecorded(c, p, m1, w1) ==
  applySaved(c, m1,
             [w1 EXCEPT !.state.patchResults[p] =
                Some([state |-> "applied",
                      message |-> Msg("Applied successfully", <<>>),
                      appliedAt |-> m1.appliedAt])],
             saveState([w1 EXCEPT !.state.patchResults[p] =
                Some([state |-> "applied",
                      message |-> Msg("Applied successfully", <<>>),
                      appliedAt |-> m1.appliedAt])]))

\* applyStamped writing a record without its asset list.
applyStamped_noAssets(c, p, w, m1) ==
  applyRecorded(c, p, [m1 EXCEPT !.assets = Null],
                Logged([w EXCEPT !.meta[p] = Some([m1 EXCEPT !.assets = Null]),
                                 !.clock = @ + 1],
                       Ev("writeMeta", p, <<>>)))

\* meta.appliedAt, meta.appliedVersion and writePatchMeta
applyStamped(c, p, w, m1) ==
  applyRecorded(c, p, m1,
                Logged([w EXCEPT !.meta[p] = Some(m1), !.clock = @ + 1],
                       Ev("writeMeta", p, <<>>)))

\* applyTransformed stamping the record whatever the transform did.
applyTransformed_alwaysStamp(c, p, m, r) ==
  applyStamped(c, p, r.w,
               [m EXCEPT !.appliedAt = Some(r.w.clock),
                         !.appliedVersion = getInstalledVersion])

\* The catch of applyPatch, or the stamp of the record.
applyTransformed(c, p, m, r) ==
  IF r.err # Null
  THEN Out(r.w, [c.status EXCEPT !.state = "error",
                   !.message = IF r.err[1].text = "Could not load patch.js for apply"
                               THEN r.err[1]
                               ELSE Msg("Apply failed", <<r.err[1].text>>)])
  ELSE applyStamped(c, p, r.w,
                    [m EXCEPT !.appliedAt = Some(r.w.clock),
                              !.appliedVersion = getInstalledVersion])

applyPending(c, p, m) ==
  applyTransformed(c, p, m,
                   IF m.type = "asset" THEN applyAssetOperations(c.w, p, m)
                   ELSE applyTargets(c.w, p, m, resolveTargetFiles(m.targetFiles)))

\* applyChecked going on from every status that carries an enabled record.
applyChecked_fromAny(c, p) ==
  IF c.status.state \notin {"pending", "applied", "resolved", "disabled"}
       \/ c.status.meta = Null \/ ~c.status.meta[1].enabled
  THEN c ELSE applyPending(c, p, c.status.meta[1])

\* if (status.state !== "pending") return status
applyChecked(c, p) ==
  IF c.status.state # "pending" THEN c ELSE applyPending(c, p, c.status.meta[1])

\* applyPatch stamping the record when it comes out resolved.
applyPatch_stamping(w, p) ==
  IF applyChecked(checkPatch(w, p), p).status.state = "resolved" /\ w.meta[p] # Null
       /\ w.meta[p][1].resolvedAt = Null
  THEN Out(Logged([w EXCEPT !.meta[p] = Some([w.meta[p][1] EXCEPT
                                !.resolvedAt = Some(w.clock),
                                !.resolvedReason =
                                  Some(applyChecked(checkPatch(w, p), p).status.message)]),
                            !.clock = @ + 1],
                  Ev("writeMeta", p, <<>>)),
           applyChecked(checkPatch(w, p), p).status)
  ELSE applyChecked(checkPatch(w, p), p)

applyPatch(w, p) == applyChecked(checkPatch(w, p), p)

\* markResolved without its test of resolvedAt.
markResolved_always(a, p) ==
  IF a.status.state = "resolved" /\ a.w.meta[p] # Null
  THEN Out(Logged([a.w EXCEPT !.meta[p] = Some([a.w.meta[p][1] EXCEPT
                                     !.resolvedAt = Some(a.w.clock),
                                     !.resolvedReason = Some(a.status.message)]),
                              !.clock = @ + 1],
                  Ev("writeMeta", p, <<>>)),
           a.status)
  ELSE a

\* markResolved stamping the date without the reason.
markResolved_dateOnly(a, p) ==
  IF a.status.state = "resolved" /\ a.w.meta[p] # Null /\ a.w.meta[p][1].resolvedAt = Null
  THEN Out(Logged([a.w EXCEPT !.meta[p] = Some([a.w.meta[p][1] EXCEPT
                                     !.resolvedAt = Some(a.w.clock)]),
                              !.clock = @ + 1],
                  Ev("writeMeta", p, <<>>)),
           a.status)
  ELSE a

\* The body of applyAll's loop after applyPatch returned a: a record that
\* came out resolved and is not yet stamped is stamped.
markResolved(a, p) ==
  IF a.status.state = "resolved" /\ a.w.meta[p] # Null /\ a.w.meta[p][1].resolvedAt = Null
  THEN Out(Logged([a.w EXCEPT !.meta[p] = Some([a.w.meta[p][1] EXCEPT
                                     !.resolvedAt = Some(a.w.clock),
                                     !.resolvedReason = Some(a.status.message)]),
                              !.clock = @ + 1],
                  Ev("writeMeta", p, <<>>)),
           a.status)
  ELSE a

applyOne(w, p) == markResolved(applyPatch(w, p), p)

\* The world and the list of results after the patches names[i..].
RECURSIVE applyFrom(_, _, _, _)
applyNext(r, names, i, results) ==
  IF r.status.state = "threw" THEN [w |-> r.w, results |-> <<r.status>>]
  ELSE applyFrom(r.w, names, i + 1, Append(results, r.status))

applyFrom(w, names, i, results) ==
  IF i > Len(names) THEN [w |-> w, results |-> results]
  ELSE applyNext(applyOne(w, names[i]), names, i, results)

applyAll(w) == applyFrom(w, discoverPatches, 1, <<>>)

RECURSIVE checkFrom(_, _, _, _)
checkNext(r, names, i, results) ==
  IF r.status.state = "threw" THEN [w |-> r.w, results |-> <<r.status>>]
  ELSE checkFrom(r.w, names, i + 1, Append(results, r.status))

checkFrom(w, names, i, results) ==
  IF i > Len(names) THEN [w |-> w, results |-> results]
  ELSE checkNext(checkPatch(w, names[i]), names, i, results)

checkAll(w) == checkFrom(w, discoverPatches, 1, <<>>)

\* loadState: the state file replaces this.state when it can be read.
loadState(w) == IF w.stateFile = Null THEN w ELSE [w EXCEPT !.state = w.stateFile[1]]


\* runAutoApply after applyAll returned r: the global fields are set and the
\* state saved; threw tells whether that saveState threw.
autoSaved(r, w1, saved) ==
  IF saved = Null THEN [w |-> w1, results |-> r.results, threw |-> TRUE]
  ELSE [w |-> saved[1], results |-> r.results, threw |-> FALSE]

autoApplied(r, w1) == autoSaved(r, w1, saveState(w1))

autoStamp(r) ==
  IF Threw(r.results) THEN [w |-> r.w, results |-> r.results, threw |-> TRUE]
  ELSE
  autoApplied(r, [r.w EXCEPT !.state.lastPatchedVersion = getInstalledVersion,
                             !.state.lastPatchedAt = Some(r.w.clock),
                             !.clock = @ + 1])

autoLoaded(w0) ==
  IF ~Truthy(getInstalledVersion) \/ discoverPatches = <<>>
  THEN [w |-> w0, results |-> <<>>, threw |-> FALSE]
  ELSE autoStamp(applyAll(w0))

runAutoApply(w) == autoLoaded(loadState(w))

\* getStatusSummary saving the state it loaded.
getStatusSummary_saving(w) ==
  checkAll(IF saveState(loadState(w)) = Null THEN loadState(w)
           ELSE saveState(loadState(w))[1])

getStatusSummary(w) == checkAll(loadState(w))

\* ------------------------------------------------------------- actions

\* The last operation: its name and argument, the statuses it returned, its
\* file-system events, the world it started from, how many operations there
\* have been, and the name, argument and statuses of the operation before it.
NoOp == [op |-> "none", arg |-> "", results |-> <<>>, io |-> <<>>,
         pre |-> Null, n |-> 0,
         prev |-> [op |-> "none", arg |-> "", results |-> <<>>]]

\* Who starts operations on the plugin's PatchManager: the service's start
\* and the execute of a tool.
Callers == {"service", "tool"}

\* A caller that started nothing.
NotStarted == [op |-> "none", pc |-> "idle", names |-> <<>>, i |-> 0,
               status |-> Null, k |-> 0, content |-> Null]

NoCalls == [run |-> [c \in Callers |-> NotStarted], log |-> <<>>]

Statics == <<diff, jsmod, srcKind, pkgVersion, backupBeforePatch, stateFileWritable,
             calls, pure>>

\* The operation op(arg) leaves the world w and returns results.
Commit(w, op, arg, results) ==
  /\ meta' = w.meta
  /\ tree' = w.tree
  /\ bak' = w.bak
  /\ destKind' = w.destKind
  /\ state' = w.state
  /\ stateFile' = w.stateFile
  /\ clock' = w.clock
  /\ last' = [op |-> op, arg |-> arg, results |-> results, io |-> w.io,
              pre |-> Some(World), n |-> last.n + 1,
              prev |-> [op |-> last.op, arg |-> last.arg, results |-> last.results]]
  /\ UNCHANGED Statics

CommitOne(r, op, p) == Commit(r.w, op, p, <<r.status>>)

CommitAll(r, op) == Commit(r.w, op, "", r.results)

CheckPatch(p) ==
  /\ last.n < MaxOps
  /\ CommitOne(checkPatch(World, p), "checkPatch", p)

ApplyPatch(p) ==
  /\ last.n < MaxOps
  /\ CommitOne(applyPatch(World, p), "applyPatch", p)

ApplyAll ==
  /\ last.n < MaxOps
  /\ CommitAll(applyAll(World), "applyAll")

CheckAll ==
  /\ last.n < MaxOps
  /\ CommitAll(checkAll(World), "checkAll")

RunAutoApply ==
  /\ last.n < MaxOps
  /\ CommitAll(runAutoApply(World), "runAutoApply")

GetStatusSummary ==
  /\ last.n < MaxOps
  /\ CommitAll(getStatusSummary(World), "getStatusSummary")

\* An upstream release rewrites a bundle file.
UpstreamRelease(f, c) ==
  /\ last.n < MaxOps
  /\ tree[f] # c
  /\ Commit([World EXCEPT !.tree[f] = c], "release", "", <<>>)


\* ------------------------------------------------------ the engine's runs

\* A hand-written patch.diff: each hunk a block of DIFF_PATCH_TEMPLATE.
RECURSIVE BlockText(_)
BlockText(hunks) ==
  IF hunks = <<>> THEN <<>>
  ELSE <<BEFORE, NL>> \o Head(hunks).oldText \o <<NL, AFTER, NL>>
       \o Head(hunks).newText \o <<NL, END, NL>> \o BlockText(Tail(hunks))

\* A patch.json as scaffoldPatch writes it, with the fields a user edits.
\* hasTargetFiles tells whether the record has a targetFiles list at all.
PatchMeta(type, targetFiles, enabled, resolvedAt, minVersion, maxVersion, assets) ==
  [enabled |-> enabled, targetFiles |-> targetFiles, type |-> type,
   minVersion |-> minVersion, maxVersion |-> maxVersion, assets |-> assets,
   appliedAt |-> Null, appliedVersion |-> Null,
   resolvedAt |-> resolvedAt, resolvedReason |-> Null,
   hasTargetFiles |-> TRUE]

\* The patch kinds of a run: the patch's type and targets, its patch.js and
\* the source of its copy operation.
Kind(type, targetFiles, mod, src) ==
  [type |-> type, targetFiles |-> targetFiles, mod |-> mod, src |-> src]

EngineKinds ==
  {Kind("diff", << <<"x">> >>, "none", "none"),
   Kind("diff", << <<"*">> >>, "none", "none"),
   Kind("js", << <<"x">> >>, "template", "none"),
   Kind("js", << <<"x">> >>, "throws", "none"),
   Kind("asset", <<>>, "none", "none"),
   Kind("asset", <<>>, "none", "file")}

RuleKinds ==
  EngineKinds \cup {Kind("diff", << <<"z">> >>, "none", "none"),
                    Kind("js", << <<"x">> >>, "none", "none")}

TheAssets == <<AssetOp("mkdir", "s2", "d1"), AssetOp("copy", "s1", "d2")>>

TheDiff == BlockText(<<Hunk(<<"a">>, <<"b">>)>>)

\* Patch p1 is of kind k with the given record fields, or has no readable
\* patch.json; patch p2 is an enabled diff patch on file y.
Patched(k, readable, enabled, resolvedAt, minVersion, maxVersion) ==
  /\ meta = [p \in Patches |->
       IF p = "p1"
       THEN IF readable
            THEN Some(PatchMeta(k.type, k.targetFiles, enabled, resolvedAt, minVersion,
                                maxVersion,
                                IF k.type = "asset" THEN Some(TheAssets) ELSE Null))
            ELSE Null
       ELSE Some(PatchMeta("diff", << <<"y">> >>, TRUE, Null, Null, Null, Null))]
  /\ diff = [p \in Patches |-> Some(TheDiff)]
  /\ jsmod = [p \in Patches |-> IF p = "p1" THEN k.mod ELSE "none"]
  /\ srcKind = [s \in Srcs |-> IF s = "s1" THEN k.src ELSE "none"]

Fresh ==
  /\ bak = [f \in FileNames |-> Null]
  /\ destKind = [d \in Dests |-> "none"]
  /\ stateFile = Null
  /\ state = EmptyState
  /\ clock = 1
  /\ last = NoOp
  /\ calls = NoCalls
  /\ pure = <<>>

Init ==
  /\ \E k \in EngineKinds, readable \in BOOLEAN, enabled \in BOOLEAN,
        resolvedAt \in {Null, Some(0)} :
       /\ readable \/ (enabled /\ resolvedAt = Null /\ k = Kind("diff", << <<"x">> >>, "none", "none"))
       /\ Patched(k, readable, enabled, resolvedAt, Null, Null)
  /\ \E cx \in {<<"a">>, <<"b">>, <<"u">>}, cy \in {<<"a">>, <<"u">>} :
       tree = [f \in FileNames |-> IF f = <<"x">> THEN cx ELSE cy]
  /\ pkgVersion \in {Null, Some(<<"1">>)}
  /\ stateFileWritable \in BOOLEAN
  /\ backupBeforePatch = TRUE
  /\ Fresh

Next ==
  \/ \E p \in Patches : CheckPatch(p)
  \/ \E p \in Patches : ApplyPatch(p)
  \/ ApplyAll
  \/ CheckAll
  \/ RunAutoApply
  \/ GetStatusSummary
  \/ \E f \in FileNames, c \in {<<"a">>, <<"u">>} : UpstreamRelease(f, c)

Spec == Init /\ [][Next]_vars


\* The world the last operation started from.
Pre == last.pre[1]

\* The hunks of a patch's patch.diff.
HunksOf(p) == parseDiffHunks(diff[p][1])

\* A record the rules of checkPatch let through to the content of its files.
Live(rec) == rec # Null /\ rec[1].enabled /\ rec[1].resolvedAt = Null

\* C2: once an enabled record has resolvedAt set, checkPatch, applyPatch and
\* applyAll (and the operations built on them) report it resolved with no
\* file-system event for the patch, neither a read of a target nor a write
\* to the install tree, and no operation changes the record, whatever the
\* target files contain.
C2_ResolvedSticky ==
  \A p \in Patches :
    (/\ last.pre # Null
     /\ Pre.meta[p] # Null
     /\ Pre.meta[p][1].enabled
     /\ Pre.meta[p][1].resolvedAt # Null)
    => /\ meta[p] = Pre.meta[p]
       /\ \A i \in 1..Len(last.io) : last.io[i].patch # p
       /\ (last.op \in {"checkPatch", "applyPatch"} /\ last.arg = p)
            => last.results[1].state = "resolved"
       /\ last.op \in {"applyAll", "checkAll", "getStatusSummary"}
            => \E i \in 1..Len(last.results) : last.results[i].name = p
       /\ \A i \in 1..Len(last.results) :
            last.results[i].name = p => last.results[i].state = "resolved"

\* A release brought the defect back into file x, and applyAll still reported
\* the resolved patch p1 resolved and left x alone.
C2_Witness ==
  /\ last.op = "applyAll"
  /\ last.prev.op = "release"
  /\ Pre.meta["p1"] # Null
  /\ Pre.meta["p1"][1].enabled
  /\ Pre.meta["p1"][1].resolvedAt # Null
  /\ Pre.meta["p1"][1].type = "diff"
  /\ tree[<<"x">>] = <<"a">>
  /\ last.results[1].state = "resolved"

\* C19: after applyAll, the record of every patch whose result is resolved
\* has resolvedAt set; a record that had none before the pass now carries the
\* date of the pass and the message of the result as resolvedReason, a record
\* that had one is unchanged; and the pass that follows an applyAll reports
\* every patch that was resolved there resolved again.
C19_ResolvedPersisted ==
  /\ last.op = "applyAll" =>
       \A i \in 1..Len(last.results) :
         last.results[i].state = "resolved" =>
           /\ meta[last.results[i].name] # Null
           /\ meta[last.results[i].name][1].resolvedAt # Null
           /\ Pre.meta[last.results[i].name] # Null
           /\ IF Pre.meta[last.results[i].name][1].resolvedAt = Null
              THEN /\ meta[last.results[i].name][1].resolvedReason
                        = Some(last.results[i].message)
                   /\ meta[last.results[i].name][1].resolvedAt[1] >= Pre.clock
                   /\ meta[last.results[i].name]
                        = Some([Pre.meta[last.results[i].name][1] EXCEPT
                                  !.resolvedAt = meta[last.results[i].name][1].resolvedAt,
                                  !.resolvedReason = Some(last.results[i].message)])
              ELSE meta[last.results[i].name] = Pre.meta[last.results[i].name]
  /\ (last.prev.op = "applyAll" /\ last.op \in {"applyAll", "checkAll"}) =>
       \A i \in 1..Len(last.prev.results) :
         last.prev.results[i].state = "resolved" =>
           /\ i <= Len(last.results)
           /\ last.results[i].name = last.prev.results[i].name
           /\ last.results[i].state = "resolved"
           /\ last.results[i].message = last.prev.results[i].message

\* An applyAll found the unstamped patch p1 resolved and stamped its record,
\* and the applyAll after it reported p1 resolved with the same message.
C19_Witness ==
  /\ last.op = "applyAll"
  /\ last.prev.op = "applyAll"
  /\ last.prev.results # <<>>
  /\ last.prev.results[1].name = "p1"
  /\ last.prev.results[1].state = "resolved"
  /\ last.prev.results[1].message.text # "Resolved upstream"
  /\ meta["p1"] # Null
  /\ meta["p1"][1].resolvedReason = Some(last.prev.results[1].message)
  /\ last.results[1].state = "resolved"

\* C7: an applyPatch that returns applied for a pending patch leaves the
\* record on disk with appliedAt set and appliedVersion the installed version,
\* and patchResults with the same appliedAt, in memory and in the state file;
\* an applyPatch that returns error leaves the record's appliedAt and
\* appliedVersion and the state file as they were.
C7_StampedOnlyWhenApplied ==
  LET p == last.arg
      st == last.results[1]
  IN  (last.op = "applyPatch" /\ Pre.meta[p] # Null)
      => /\ (st.state = "applied" /\ st.message.text # "Already applied"
               /\ st.message.text # "All assets in place")
              => /\ meta[p][1].appliedAt # Null
                 /\ meta[p][1].appliedVersion = pkgVersion
                 /\ state.patchResults[p] # Null
                 /\ state.patchResults[p][1].state = "applied"
                 /\ state.patchResults[p][1].appliedAt = meta[p][1].appliedAt
                 /\ stateFile = Some(state)
         /\ st.state = "error"
              => /\ meta[p][1].appliedAt = Pre.meta[p][1].appliedAt
                 /\ meta[p][1].appliedVersion = Pre.meta[p][1].appliedVersion
                 /\ stateFile = Pre.stateFile


\* ------------------------------------------------- the rules of checkPatch

RuleVersions == {Null, Some(<<>>), Some(<<"1">>), Some(<<"2">>)}

\* Patch p1 of every kind with every combination of the fields the rules
\* read, under every installed version.
RulesInit ==
  /\ \E k \in RuleKinds, readable \in BOOLEAN, enabled \in BOOLEAN,
        resolvedAt \in {Null, Some(0)},
        minVersion \in RuleVersions, maxVersion \in RuleVersions :
       Patched(k, readable, enabled, resolvedAt, minVersion, maxVersion)
  /\ \E cx \in {<<"a">>, <<"b">>, <<"u">>} :
       tree = [f \in FileNames |-> IF f = <<"x">> THEN cx ELSE <<"a">>]
  /\ pkgVersion \in RuleVersions
  /\ stateFileWritable = TRUE
  /\ backupBeforePatch = FALSE
  /\ Fresh

RulesNext ==
  \/ \E p \in Patches : CheckPatch(p)
  \/ \E p \in Patches : ApplyPatch(p)

SpecRules == RulesInit /\ [][RulesNext]_vars

\* version lies in [minVersion, maxVersion), a bound that is absent or empty
\* being no bound.
InRange(version, minVersion, maxVersion) ==
  /\ Truthy(minVersion) => compareVersions(version, minVersion[1]) >= 0
  /\ Truthy(maxVersion) => compareVersions(version, maxVersion[1]) < 0

\* C1: checkPatch returns on the first rule that applies, in the order:
\* record unreadable (error), disabled (disabled, "Patch is disabled"),
\* resolvedAt set (resolved), installed version known and out of range
\* (disabled, the version reason), asset (the asset check), no file matched
\* (error); each of the rules before the asset check returns without a
\* file-system event, and a target file is read only when none of them applies.
C1_RuleOrder ==
  last.op = "checkPatch" =>
    LET p == last.arg
        st == last.results[1]
        rec == Pre.meta[p]
        m == rec[1]
        inspected == \E i \in 1..Len(last.io) : last.io[i].op = "readTarget"
    IN  IF rec = Null
        THEN /\ st.state = "error"
             /\ st.message = Msg("Missing or invalid patch.json", <<>>)
             /\ last.io = <<>>
        ELSE IF ~m.enabled
        THEN /\ st.state = "disabled"
             /\ st.message = Msg("Patch is disabled", <<>>)
             /\ last.io = <<>>
        ELSE IF m.resolvedAt # Null
        THEN st.state = "resolved" /\ last.io = <<>>
        ELSE IF Truthy(pkgVersion) /\ ~InRange(pkgVersion[1], m.minVersion, m.maxVersion)
        THEN /\ st.state = "disabled"
             /\ st.message.text \in {"Version is below minimum",
                                     "Version is at or above maximum"}
             /\ last.io = <<>>
        ELSE IF m.type = "asset"
        THEN st = checkAssetPatch(Pre, p, m).status /\ ~inspected
        ELSE IF resolveTargetFiles(m.targetFiles) = <<>>
        THEN /\ st.state = "error"
             /\ st.message.text = "No files matched patterns"
             /\ last.io = <<>>
        ELSE TRUE

\* A record that is disabled, resolved and out of the version range was
\* checked and came out disabled by the first of the three rules.
C1_Witness ==
  /\ last.op = "checkPatch"
  /\ Pre.meta[last.arg] # Null
  /\ ~Pre.meta[last.arg][1].enabled
  /\ Pre.meta[last.arg][1].resolvedAt # Null
  /\ Truthy(pkgVersion)
  /\ ~InRange(pkgVersion[1], Pre.meta[last.arg][1].minVersion, Pre.meta[last.arg][1].maxVersion)
  /\ last.results[1].state = "disabled"
  /\ last.results[1].message = Msg("Patch is disabled", <<>>)

\* The positions of the file-system events that write.
WritingEvents(io) ==
  {i \in 1..Len(io) : io[i].op \notin {"lstat", "readTarget"}}

\* C30: when the check applyPatch runs first comes out disabled (by the
\* record or by the version range), resolved, applied or error, applyPatch
\* returns that status as it is and writes nothing: the target files, the
\* .bak files, the asset destinations, the patch records and the state file
\* are what they were, and so is the state in memory.
C30_OnlyFromPending ==
  (/\ last.op = "applyPatch"
   /\ checkPatch(Pre, last.arg).status.state \in {"disabled", "resolved", "applied", "error"})
    => /\ last.results[1] = checkPatch(Pre, last.arg).status
       /\ WritingEvents(last.io) = {}
       /\ tree = Pre.tree
       /\ bak = Pre.bak
       /\ destKind = Pre.destKind
       /\ meta = Pre.meta
       /\ stateFile = Pre.stateFile
       /\ state = Pre.state

\* applyPatch ran on an enabled, unresolved patch whose file holds the old
\* text while the installed version is out of the record's range, and
\* returned disabled.
C30_Witness ==
  /\ last.op = "applyPatch"
  /\ Live(Pre.meta[last.arg])
  /\ Pre.meta[last.arg][1].type = "diff"
  /\ Pre.meta[last.arg][1].targetFiles = << <<"x">> >>
  /\ Pre.tree[<<"x">>] = <<"a">>
  /\ Truthy(pkgVersion)
  /\ ~InRange(pkgVersion[1], Pre.meta[last.arg][1].minVersion, Pre.meta[last.arg][1].maxVersion)
  /\ last.results[1].state = "disabled"
  /\ tree[<<"x">>] = <<"a">>


\* C31: checkPatch, checkAll and getStatusSummary write nothing: the target
\* files, the .bak files, the asset destinations, every patch record and the
\* state file are after the operation what they were before it, and the
\* operation logs no writing event, whatever the kinds and states of the
\* patches.
C31_CheckReadOnly ==
  last.op \in {"checkPatch", "checkAll", "getStatusSummary"}
    => /\ WritingEvents(last.io) = {}
       /\ tree = Pre.tree
       /\ bak = Pre.bak
       /\ destKind = Pre.destKind
       /\ meta = Pre.meta
       /\ stateFile = Pre.stateFile

\* checkAll found p1 resolved by the content of its files and left its
\* record without resolvedAt.
C31_Witness ==
  /\ last.op = "checkAll"
  /\ last.results # <<>>
  /\ last.results[1].name = "p1"
  /\ last.results[1].state = "resolved"
  /\ meta["p1"] # Null
  /\ meta["p1"][1].resolvedAt = Null


\* The original statement of C35: a checkPatch or applyPatch that decides
\* resolved from the content of the files leaves the record with resolvedAt
\* and resolvedReason set.
C35_EveryResolveStamps ==
  (/\ last.op \in {"checkPatch", "applyPatch"}
   /\ last.results[1].state = "resolved"
   /\ Live(Pre.meta[last.arg]))
    => /\ meta[last.arg][1].resolvedAt # Null
       /\ meta[last.arg][1].resolvedReason # Null

\* C35: a checkPatch or applyPatch that decides resolved from the content
\* of the files leaves every record as it was, resolvedAt unset; applyAll
\* and runAutoApply set resolvedAt and resolvedReason, the message of the
\* result, on every record they decide resolved from the content.
C35_ResolveStampedByPass ==
  /\ (/\ last.op \in {"checkPatch", "applyPatch"}
      /\ last.results[1].state = "resolved"
      /\ Live(Pre.meta[last.arg]))
       => /\ meta = Pre.meta
          /\ meta[last.arg][1].resolvedAt = Null
  /\ last.op \in {"applyAll", "runAutoApply"} =>
       \A i \in 1..Len(last.results) :
         (last.results[i].state = "resolved" /\ Live(Pre.meta[last.results[i].name]))
           => /\ meta[last.results[i].name][1].resolvedAt # Null
              /\ meta[last.results[i].name][1].resolvedReason = Some(last.results[i].message)

\* applyPatch found the upstream fix in file x, returned resolved and left
\* the record without resolvedAt.
C35_Witness ==
  /\ last.op = "applyPatch"
  /\ last.results[1].state = "resolved"
  /\ Live(Pre.meta[last.arg])
  /\ Pre.tree[<<"x">>] = <<"u">>
  /\ meta[last.arg][1].resolvedAt = Null


\* The record rec is the record old with at most appliedAt and
\* appliedVersion changed.
AppliedStamp(rec, old) ==
  rec = [old EXCEPT !.appliedAt = rec.appliedAt, !.appliedVersion = rec.appliedVersion]

\* The record rec is the record old with at most resolvedAt and
\* resolvedReason changed.
ResolvedStamp(rec, old) ==
  rec = [old EXCEPT !.resolvedAt = rec.resolvedAt, !.resolvedReason = rec.resolvedReason]

\* C25: an operation changes the record of a patch only by writing it, and
\* a written record differs from the one read only in appliedAt and
\* appliedVersion (a patch that was applied) or only in resolvedAt and
\* resolvedReason (a patch that applyAll found resolved); the record of a
\* patch whose record is not written is as it was, and no record appears or
\* disappears.
C25_StampKeepsRecord ==
  last.pre # Null =>
    \A p \in Patches :
      /\ (meta[p] = Null) = (Pre.meta[p] = Null)
      /\ (\A i \in 1..Len(last.io) : ~(last.io[i].op = "writeMeta" /\ last.io[i].patch = p))
           => meta[p] = Pre.meta[p]
      /\ meta[p] # Pre.meta[p] =>
           \/ (/\ AppliedStamp(meta[p][1], Pre.meta[p][1])
               /\ \E i \in 1..Len(last.results) :
                    last.results[i].name = p /\ last.results[i].state \in {"applied", "error"})
           \/ (/\ ResolvedStamp(meta[p][1], Pre.meta[p][1])
               /\ last.op \in {"applyAll", "runAutoApply"}
               /\ \E i \in 1..Len(last.results) :
                    last.results[i].name = p /\ last.results[i].state = "resolved")

\* An applyAll applied the asset patch p1 and stamped its record, which kept
\* its asset list, and left the record of p2, which needed nothing.
C25_Witness ==
  /\ last.op = "applyAll"
  /\ Pre.meta["p1"] # Null
  /\ Pre.meta["p1"][1].assets # Null
  /\ Pre.meta["p1"][1].appliedAt = Null
  /\ meta["p1"][1].appliedAt # Null
  /\ meta["p1"][1].assets = Pre.meta["p1"][1].assets
  /\ meta["p2"] = Pre.meta["p2"]


\* ------------------------------------------------- text hunks on a file

\* Patch p1 is an enabled diff patch on file x with the hunks hs, written as
\* blocks; x holds c; there is no other patch.
DiffPatch(hs, c) ==
  /\ meta = [p \in Patches |->
       IF p = "p1"
       THEN Some(PatchMeta("diff", << <<"x">> >>, TRUE, Null, Null, Null, Null))
       ELSE Null]
  /\ diff = [p \in Patches |-> IF p = "p1" THEN Some(BlockText(hs)) ELSE Null]
  /\ jsmod = [p \in Patches |-> "none"]
  /\ srcKind = [s \in Srcs |-> "none"]
  /\ tree = [f \in FileNames |-> IF f = <<"x">> THEN c ELSE <<>>]
  /\ pkgVersion = Some(<<"1">>)
  /\ stateFileWritable = TRUE
  /\ backupBeforePatch = TRUE
  /\ Fresh

DiffInit ==
  \E hs \in SeqsUpTo(Hunks(Strings(MaxTextLen)), MaxHunks), c \in Strings(MaxContentLen) :
    DiffPatch(hs, c)

DiffNext == CheckPatch("p1") \/ ApplyPatch("p1")

SpecDiff == DiffInit /\ [][DiffNext]_vars

\* The last operation was a checkPatch of p1 that got as far as the content
\* of file x.
CheckedContent ==
  /\ last.op = "checkPatch"
  /\ last.arg = "p1"
  /\ Live(Pre.meta["p1"])
  /\ HunksOf("p1") # <<>>

\* Every text of the hunks is non-empty and no hunk replaces a text by itself.
ProperHunks(hunks) ==
  \A i \in 1..Len(hunks) :
    /\ hunks[i].oldText # <<>>
    /\ hunks[i].newText # <<>>
    /\ hunks[i].oldText # hunks[i].newText

\* C4: a diff patch is classified resolved from content only when the
\* inspected file holds none of its hunks' oldText and none of their newText
\* (stated for hunks of non-empty texts).
C4_ResolvedOnlyWhenNone ==
  (/\ CheckedContent
   /\ ProperHunks(HunksOf("p1"))
   /\ last.results[1].state = "resolved")
  => \A i \in 1..Len(HunksOf("p1")) :
       /\ ~Includes(Pre.tree[<<"x">>], HunksOf("p1")[i].oldText)
       /\ ~Includes(Pre.tree[<<"x">>], HunksOf("p1")[i].newText)

\* A hunk that deletes its oldText or replaces it by a proper part of it.
Shrinks(h) == h.newText # h.oldText /\ Includes(h.oldText, h.newText)

\* C5: a file that holds every hunk's oldText and to which the hunks have not
\* been applied is classified pending (stated for patches whose hunks are
\* deletions or replace a text by a part of it, on a file the hunks would
\* change).
C5_PendingWhenDefectPresent ==
  (/\ CheckedContent
   /\ \A i \in 1..Len(HunksOf("p1")) : Shrinks(HunksOf("p1")[i])
   /\ \A i \in 1..Len(HunksOf("p1")) : Includes(Pre.tree[<<"x">>], HunksOf("p1")[i].oldText)
   /\ applyDiffHunks(Pre.tree[<<"x">>], HunksOf("p1")) # Pre.tree[<<"x">>])
  => last.results[1].state = "pending"

\* C6: when applyPatch has turned a pending diff patch into applied, the
\* checkPatch that follows it finds every hunk's newText in the file and
\* returns applied (stated for hunks of non-empty texts).
C6_AppliedAfterApply ==
  (/\ last.op = "checkPatch"
   /\ last.arg = "p1"
   /\ last.prev.op = "applyPatch"
   /\ last.prev.arg = "p1"
   /\ last.prev.results[1].state = "applied"
   /\ last.prev.results[1].message.text = "Applied file(s)"
   /\ ProperHunks(HunksOf("p1")))
  => /\ \A i \in 1..Len(HunksOf("p1")) : Includes(tree[<<"x">>], HunksOf("p1")[i].newText)
     /\ last.results[1].state = "applied"

\* Texts of the hunks of the classification runs.
ClassifyTexts == {<<>>, <<"a">>, <<"$">>}

ClassifyInit ==
  \E hs \in SeqsUpTo(Hunks(ClassifyTexts), ClassifyHunks), c \in Strings(ClassifyContentLen) :
    DiffPatch(hs, c)

SpecClassify == ClassifyInit /\ [][DiffNext]_vars

\* C3: checkPatch classifies a diff patch as applied when the inspected file
\* holds every hunk's newText, whether or not it also holds every hunk's
\* oldText.
C3_NewTextFirst ==
  (/\ CheckedContent
   /\ \A i \in 1..Len(HunksOf("p1")) : Includes(Pre.tree[<<"x">>], HunksOf("p1")[i].newText))
  => last.results[1].state = "applied"

\* A file that holds the oldText and the newText of both hunks of a patch was
\* classified applied.
C3_Witness ==
  /\ CheckedContent
  /\ Len(HunksOf("p1")) = 2
  /\ ProperHunks(HunksOf("p1"))
  /\ \A i \in 1..2 : Includes(Pre.tree[<<"x">>], HunksOf("p1")[i].newText)
  /\ \A i \in 1..2 : Includes(Pre.tree[<<"x">>], HunksOf("p1")[i].oldText)
  /\ last.results[1].state = "applied"


\* ------------------------------------------------- scans of several files

ScanContents == UNION {[1..k -> {"a", "b", "u"}] : k \in 0..ScanContentLen}

ScanPatterns == { << <<"x">> >>, << <<"y">> >>, << <<"*">> >>, << <<"y">>, <<"x">> >> }

\* Patch p1 is an enabled js patch with the template module or an enabled
\* diff patch with the hunk a -> b, on one or both of the files x and y.
ScanInit ==
  /\ \E type \in {"js", "diff"}, patterns \in ScanPatterns :
       /\ meta = [p \in Patches |->
            IF p = "p1"
            THEN Some(PatchMeta(type, patterns, TRUE, Null, Null, Null, Null))
            ELSE Null]
       /\ jsmod = [p \in Patches |-> IF p = "p1" /\ type = "js" THEN "template" ELSE "none"]
  /\ diff = [p \in Patches |-> IF p = "p1" THEN Some(TheDiff) ELSE Null]
  /\ srcKind = [s \in Srcs |-> "none"]
  /\ \E cx \in ScanContents, cy \in ScanContents :
       tree = [f \in FileNames |-> IF f = <<"x">> THEN cx ELSE cy]
  /\ pkgVersion = Some(<<"1">>)
  /\ stateFileWritable = TRUE
  /\ backupBeforePatch = FALSE
  /\ Fresh

SpecScan == ScanInit /\ [][DiffNext]_vars

\* The files the last operation's patch p1 matched, in the order of
\* resolveTargetFiles.
Matched == resolveTargetFiles(Pre.meta["p1"][1].targetFiles)

\* The last operation was a checkPatch of p1 of the given type that got as
\* far as its matched files.
Scanned(type) ==
  /\ last.op = "checkPatch"
  /\ last.arg = "p1"
  /\ Live(Pre.meta["p1"])
  /\ Pre.meta["p1"][1].type = type
  /\ Matched # <<>>

\* The module's verdict on a content: isResolved before check.
JsVerdict(content) ==
  IF JsIsResolved(jsmod["p1"], content) THEN "resolved"
  ELSE IF JsCheck(jsmod["p1"], content) THEN "pending"
  ELSE "none"

\* The read events of the first n matched files.
ReadsUpTo(n) == [i \in 1..n |-> Ev("readTarget", "p1", Matched[i])]

\* C13: checkPatch of a js patch reads the matched files in order; the first
\* file on which isResolved or check holds ends the scan and gives resolved
\* when isResolved holds on it, pending otherwise; when neither holds on any
\* matched file every file is read and the result is applied.
C13_JsScan ==
  Scanned("js") =>
    LET hits == {i \in 1..Len(Matched) : JsVerdict(Pre.tree[Matched[i]]) # "none"}
        first == CHOOSE i \in hits : \A j \in hits : i <= j
    IN  IF hits = {}
        THEN last.results[1].state = "applied" /\ last.io = ReadsUpTo(Len(Matched))
        ELSE /\ last.results[1].state = JsVerdict(Pre.tree[Matched[first]])
             /\ last.io = ReadsUpTo(first)

\* The first file triggered neither predicate, the second holds both the
\* upstream marker and the defect, and the patch came out resolved.
C13_Witness ==
  /\ Scanned("js")
  /\ Len(Matched) = 2
  /\ JsVerdict(Pre.tree[Matched[1]]) = "none"
  /\ JsIsResolved(jsmod["p1"], Pre.tree[Matched[2]])
  /\ JsCheck(jsmod["p1"], Pre.tree[Matched[2]])
  /\ last.results[1].state = "resolved"
  /\ Len(last.io) = 2

\* C14: checkPatch of a diff patch scans its matched files in order: a file
\* that holds every newText does not end the scan, so the patch is pending
\* when the first later file that does not hold every newText holds every
\* oldText, and applied only when every matched file holds every newText.
C14_DiffScanContinues ==
  Scanned("diff") =>
    /\ last.results[1].state = "applied"
         => \A i \in 1..Len(Matched) :
              \A h \in 1..Len(HunksOf("p1")) :
                Includes(Pre.tree[Matched[i]], HunksOf("p1")[h].newText)
    /\ \A i \in 1..Len(Matched) :
         (/\ \A j \in 1..(i - 1) : \A h \in 1..Len(HunksOf("p1")) :
                Includes(Pre.tree[Matched[j]], HunksOf("p1")[h].newText)
          /\ \E h \in 1..Len(HunksOf("p1")) :
                ~Includes(Pre.tree[Matched[i]], HunksOf("p1")[h].newText)
          /\ \A h \in 1..Len(HunksOf("p1")) :
                Includes(Pre.tree[Matched[i]], HunksOf("p1")[h].oldText))
         => last.results[1].state = "pending"


\* ------------------------------------------------------ asset patches

AssetOps ==
  {AssetOp("copy", src, dest) : src \in Srcs, dest \in Dests}
    \cup {AssetOp(type, "s1", dest) : type \in {"symlink", "mkdir"}, dest \in Dests}

\* Patch p1 is an enabled asset patch with any list of operations, or none,
\* over destinations and a copy source of every kind.
AssetsInit ==
  /\ \E assets \in Optional(SeqsUpTo(AssetOps, MaxAssets)) :
       meta = [p \in Patches |->
         IF p = "p1"
         THEN Some(PatchMeta("asset", <<>>, TRUE, Null, Null, Null, assets))
         ELSE Null]
  /\ diff = [p \in Patches |-> Null]
  /\ jsmod = [p \in Patches |-> "none"]
  /\ \E k1 \in {"none", "file", "dir"}, k2 \in {"none", "file"} :
       srcKind = [s \in Srcs |-> IF s = "s1" THEN k1 ELSE k2]
  /\ tree = [f \in FileNames |-> <<>>]
  /\ bak = [f \in FileNames |-> Null]
  /\ destKind \in [Dests -> {"none", "file", "dir", "symlink"}]
  /\ pkgVersion = Some(<<"1">>)
  /\ stateFileWritable = TRUE
  /\ backupBeforePatch = TRUE
  /\ stateFile = Null
  /\ state = EmptyState
  /\ clock = 1
  /\ last = NoOp
  /\ calls = NoCalls
  /\ pure = <<>>

SpecAssets == AssetsInit /\ [][DiffNext]_vars

\* The operations of patch p1 before the last operation.
AssetsOf == Pre.meta["p1"][1].assets

\* What has to lie at the destination of an operation of each type.
Required(type) ==
  CASE type = "symlink" -> "symlink"
    [] type = "mkdir" -> "dir"
    [] OTHER -> "file"

\* C15: checkPatch of an asset patch is error when the patch has no
\* operations; otherwise it is applied exactly when at every operation's
\* destination lies, links not followed, what the operation requires (copy:
\* a regular file, symlink: a symbolic link, mkdir: a directory), and pending
\* when some destination is missing or of another kind.
C15_AssetCheck ==
  (last.op = "checkPatch" /\ last.arg = "p1" /\ Live(Pre.meta["p1"])
     /\ Pre.meta["p1"][1].type = "asset")
  => IF AssetsOf = Null \/ AssetsOf[1] = <<>>
     THEN last.results[1].state = "error"
     ELSE IF \A i \in 1..Len(AssetsOf[1]) :
               Pre.destKind[AssetsOf[1][i].dest] = Required(AssetsOf[1][i].type)
     THEN last.results[1].state = "applied"
     ELSE last.results[1].state = "pending"

\* A copy whose destination is a symbolic link and a mkdir whose destination
\* is a directory were checked, and the patch came out pending.
C15_Witness ==
  /\ last.op = "checkPatch"
  /\ last.arg = "p1"
  /\ AssetsOf = Some(<<AssetOp("mkdir", "s1", "d1"), AssetOp("copy", "s1", "d2")>>)
  /\ Pre.destKind["d1"] = "dir"
  /\ Pre.destKind["d2"] = "symlink"
  /\ last.results[1].state = "pending"

\* The first copy operation of the list whose source is missing, 0 when
\* there is none.
FirstMissing(assets) ==
  LET at == {i \in 1..Len(assets) : assets[i].type = "copy" /\ srcKind[assets[i].src] = "none"}
  IN  IF at = {} THEN 0 ELSE CHOOSE i \in at : \A j \in at : i <= j

\* The operations before the k-th have distinct destinations where nothing
\* lay, so that none of them fails.
CleanBefore(assets, k) ==
  /\ \A i \in 1..(k - 1) : Pre.destKind[assets[i].dest] = "none"
  /\ \A i \in 1..(k - 1) : \A j \in 1..(k - 1) : i # j => assets[i].dest # assets[j].dest

\* What an operation leaves at a destination where nothing lay.
Placed(asset) ==
  CASE asset.type = "symlink" -> "symlink"
    [] asset.type = "mkdir" -> "dir"
    [] OTHER -> srcKind[asset.src]

\* The events of an operation's log that are asset operations.
AssetEvents(io) == SelectSeq(io, LAMBDA e : e.op \in {"copy", "symlink", "mkdir"})

\* C16: when the k-th operation of a pending asset patch is a copy whose
\* source is missing and the operations before it succeed, applyPatch returns
\* error with the source-not-found message; the operations 1..k-1 have been
\* executed in order and their results lie at their destinations; no other
\* destination has changed; the record is not stamped and no state is saved.
C16_AssetAbort ==
  (/\ last.op = "applyPatch"
   /\ last.arg = "p1"
   /\ Live(Pre.meta["p1"])
   /\ Pre.meta["p1"][1].type = "asset"
   /\ AssetsOf # Null
   /\ \E i \in 1..Len(AssetsOf[1]) :
        Pre.destKind[AssetsOf[1][i].dest] # Required(AssetsOf[1][i].type)
   /\ FirstMissing(AssetsOf[1]) # 0
   /\ CleanBefore(AssetsOf[1], FirstMissing(AssetsOf[1])))
  => LET assets == AssetsOf[1]
         k == FirstMissing(assets)
     IN  /\ last.results[1].state = "error"
         /\ last.results[1].message = Msg("Apply failed", <<"Asset source not found">>)
         /\ AssetEvents(last.io) =
              [i \in 1..(k - 1) |-> Ev(assets[i].type, "p1", assets[i].dest)]
         /\ \A i \in 1..(k - 1) : destKind[assets[i].dest] = Placed(assets[i])
         /\ \A d \in Dests :
              (\A i \in 1..(k - 1) : assets[i].dest # d) => destKind[d] = Pre.destKind[d]
         /\ meta["p1"] = Pre.meta["p1"]
         /\ state = Pre.state
         /\ stateFile = Pre.stateFile

\* A copy was executed and stayed, the copy after it found no source, and
\* applyPatch returned error.
C16_Witness ==
  /\ last.op = "applyPatch"
  /\ last.arg = "p1"
  /\ AssetsOf = Some(<<AssetOp("copy", "s2", "d1"), AssetOp("copy", "s1", "d2")>>)
  /\ srcKind["s1"] = "none"
  /\ srcKind["s2"] = "file"
  /\ Pre.destKind["d1"] = "none"
  /\ destKind["d1"] = "file"
  /\ destKind["d2"] = Pre.destKind["d2"]
  /\ last.results[1].state = "error"
  /\ meta["p1"][1].appliedAt = Null


\* C36: when applyPatch has applied the asset patch p1 and reported it
\* applied, a checkPatch that follows it directly reports p1 applied.
C36_AssetsConverge ==
  (/\ last.op = "checkPatch"
   /\ last.arg = "p1"
   /\ last.prev.op = "applyPatch"
   /\ last.prev.arg = "p1"
   /\ last.prev.results[1].state = "applied"
   /\ last.prev.results[1].message.text = "Applied asset(s)")
    => last.results[1].state = "applied"


\* ------------------------------------------------- backups of target files

BackupContents == {<<"a">>, <<"b">>, <<"a", "a">>}

BackupPatterns == ScanPatterns \cup { << <<"x">>, <<"*">> >> }

\* Patch p1 is an enabled diff patch (a -> b) or js patch (template module or
\* a module whose apply throws) on one or both of x and y, one of them
\* possibly matched twice, with backups on or off.
BackupInit ==
  /\ \E type \in {"js", "diff"}, mod \in {"template", "throws"}, patterns \in BackupPatterns :
       /\ type = "diff" => mod = "template"
       /\ meta = [p \in Patches |->
            IF p = "p1"
            THEN Some(PatchMeta(type, patterns, TRUE, Null, Null, Null, Null))
            ELSE Null]
       /\ jsmod = [p \in Patches |-> IF p = "p1" /\ type = "js" THEN mod ELSE "none"]
  /\ diff = [p \in Patches |-> IF p = "p1" THEN Some(TheDiff) ELSE Null]
  /\ srcKind = [s \in Srcs |-> "none"]
  /\ \E cx \in BackupContents, cy \in BackupContents :
       tree = [f \in FileNames |-> IF f = <<"x">> THEN cx ELSE cy]
  /\ pkgVersion = Some(<<"1">>)
  /\ stateFileWritable = TRUE
  /\ backupBeforePatch \in BOOLEAN
  /\ Fresh

SpecBackup == BackupInit /\ [][DiffNext]_vars

\* The positions of the log at which file f is written.
WritesOf(f) == {i \in 1..Len(last.io) : last.io[i] = Ev("writeTarget", "p1", f)}

\* What the patch's transform makes of a content.
Transformed(content) ==
  IF Pre.meta["p1"][1].type = "js" THEN JsApply(jsmod["p1"], content)[1]
  ELSE applyDiffHunks(content, HunksOf("p1"))

\* C17: with backupBeforePatch on, every write of a target file in an
\* applyPatch comes directly after the write of its .bak, and the .bak holds
\* the content the file had before that write (the original content for a
\* file written once, the once-transformed content for a file matched and
\* written twice); when the transform throws, the .bak of the file it was
\* given is already written and equals the file; with backupBeforePatch off
\* no .bak is written.
C17_BackupFirst ==
  (last.op = "applyPatch" /\ last.arg = "p1") =>
    IF backupBeforePatch
    THEN /\ \A i \in 1..Len(last.io) :
              last.io[i].op = "writeTarget"
                => i > 1 /\ last.io[i - 1] = Ev("writeBak", "p1", last.io[i].file)
         /\ \A f \in FileNames :
              /\ Cardinality(WritesOf(f)) = 1 => bak[f] = Some(Pre.tree[f])
              /\ Cardinality(WritesOf(f)) = 2 => bak[f] = Some(Transformed(Pre.tree[f]))
         /\ (last.results[1].state = "error" /\ last.results[1].message.text = "Apply failed")
              => /\ last.io[Len(last.io)].op = "writeBak"
                 /\ bak[last.io[Len(last.io)].file] = Some(tree[last.io[Len(last.io)].file])
    ELSE /\ bak = Pre.bak
         /\ \A i \in 1..Len(last.io) : last.io[i].op # "writeBak"

\* With backups on, an applyPatch wrote x and then y, which its transform
\* left as it was, and both .bak files hold the original contents.
C17_Witness ==
  /\ last.op = "applyPatch"
  /\ last.arg = "p1"
  /\ backupBeforePatch
  /\ last.results[1].state = "applied"
  /\ Cardinality(WritesOf(<<"x">>)) = 1
  /\ Cardinality(WritesOf(<<"y">>)) = 1
  /\ tree[<<"x">>] # Pre.tree[<<"x">>]
  /\ tree[<<"y">>] = Pre.tree[<<"y">>]
  /\ bak[<<"x">>] = Some(Pre.tree[<<"x">>])
  /\ bak[<<"y">>] = Some(Pre.tree[<<"y">>])


\* ------------------------------------------------- passes over all patches

\* What can be wrong with a patch directory: nothing, patch.json unreadable,
\* patch.json without a targetFiles list, patch.js missing, patch.diff
\* missing, a module whose apply throws.
PassFaults == {"ok", "unreadable", "incomplete", "nojs", "nodiff", "throws"}

\* The record of patch p on file f under a fault.
FaultyMeta(fault, f) ==
  IF fault = "unreadable" THEN Null
  ELSE Some([PatchMeta(IF fault \in {"nojs", "throws"} THEN "js" ELSE "diff",
                       << f >>, TRUE, Null, Null, Null, Null)
               EXCEPT !.hasTargetFiles = (fault # "incomplete")])

\* Patch p1 on file x and patch p2 on file y, each with any of the faults.
PassInit ==
  /\ \E f1 \in PassFaults, f2 \in PassFaults :
       /\ meta = [p \in Patches |->
                    IF p = "p1" THEN FaultyMeta(f1, <<"x">>) ELSE FaultyMeta(f2, <<"y">>)]
       /\ diff = [p \in Patches |->
                    IF (IF p = "p1" THEN f1 ELSE f2) = "nodiff" THEN Null ELSE Some(TheDiff)]
       /\ jsmod = [p \in Patches |->
                    IF (IF p = "p1" THEN f1 ELSE f2) = "throws" THEN "throws" ELSE "none"]
  /\ srcKind = [s \in Srcs |-> "none"]
  /\ \E cx \in {<<"a">>, <<"b">>}, cy \in {<<"a">>, <<"b">>} :
       tree = [f \in FileNames |-> IF f = <<"x">> THEN cx ELSE cy]
  /\ pkgVersion = Some(<<"1">>)
  /\ stateFileWritable = TRUE
  /\ backupBeforePatch = TRUE
  /\ Fresh

PassNext == ApplyAll \/ CheckAll

SpecPass == PassInit /\ [][PassNext]_vars

\* C18: applyAll and checkAll return one result per discovered patch, in
\* order, each a status of one of the five states; a patch whose patch.json
\* is unreadable or has no targetFiles list, or whose patch.js or patch.diff
\* is missing, has the result error.
C18_OneResultEach ==
  last.op \in {"applyAll", "checkAll"} =>
    /\ Len(last.results) = Len(discoverPatches)
    /\ \A i \in 1..Len(last.results) :
         /\ last.results[i].name = discoverPatches[i]
         /\ last.results[i].state \in {"pending", "applied", "resolved", "disabled", "error"}
         /\ (\/ Pre.meta[discoverPatches[i]] = Null
             \/ ~Pre.meta[discoverPatches[i]][1].hasTargetFiles
             \/ (Pre.meta[discoverPatches[i]][1].type = "js" /\ jsmod[discoverPatches[i]] = "none")
             \/ (Pre.meta[discoverPatches[i]][1].type = "diff" /\ diff[discoverPatches[i]] = Null))
            => last.results[i].state = "error"


\* ------------------------------------------- the record as an audit trail

\* A RunState that says patch p was applied.
Recorded(p) ==
  [EmptyState EXCEPT !.lastPatchedVersion = Some(<<"1">>), !.lastPatchedAt = Some(0),
                     !.patchResults[p] = Some([state |-> "applied",
                                               message |-> Msg("Applied successfully", <<>>),
                                               appliedAt |-> Some(0)])]

\* Patch p1 of every kind, stamped applied or not, with a RunState that
\* records it or an empty one, over every content of the files.
AuditInit ==
  /\ \E k \in EngineKinds, stamp \in {Null, Some(0)} :
       /\ diff = [p \in Patches |-> Some(TheDiff)]
       /\ jsmod = [p \in Patches |-> IF p = "p1" THEN k.mod ELSE "none"]
       /\ srcKind = [s \in Srcs |-> IF s = "s1" THEN k.src ELSE "none"]
       /\ meta = [p \in Patches |->
            IF p = "p1"
            THEN Some([PatchMeta(k.type, k.targetFiles, TRUE, Null, Null, Null,
                                 IF k.type = "asset" THEN Some(TheAssets) ELSE Null)
                         EXCEPT !.appliedAt = stamp,
                                !.appliedVersion = IF stamp = Null THEN Null
                                                   ELSE Some(<<"1">>)])
            ELSE Some(PatchMeta("diff", << <<"y">> >>, TRUE, Null, Null, Null, Null))]
  /\ \E cx \in {<<"a">>, <<"b">>, <<"u">>}, cy \in {<<"a">>, <<"b">>} :
       tree = [f \in FileNames |-> IF f = <<"x">> THEN cx ELSE cy]
  /\ pkgVersion = Some(<<"1">>)
  /\ stateFileWritable = TRUE
  /\ backupBeforePatch = FALSE
  /\ bak = [f \in FileNames |-> Null]
  /\ destKind = [d \in Dests |-> "none"]
  /\ state \in {EmptyState, Recorded("p1")}
  /\ stateFile = IF state = EmptyState THEN Null ELSE Some(state)
  /\ clock = 1
  /\ last = NoOp
  /\ calls = NoCalls
  /\ pure = <<>>

AuditNext ==
  \/ CheckPatch("p1")
  \/ ApplyAll
  \/ \E f \in FileNames, c \in {<<"a">>, <<"u">>} : UpstreamRelease(f, c)

SpecAudit == AuditInit /\ [][AuditNext]_vars

\* The worlds that differ from w at most in the stamp of p's record and in
\* RunState, in memory and on disk.
Restamped(w, p) ==
  {[w EXCEPT !.meta[p] = Some([w.meta[p][1] EXCEPT !.appliedAt = a, !.appliedVersion = v]),
             !.state = s, !.stateFile = f] :
     a \in {Null, Some(0)}, v \in {Null, Some(<<"1">>), Some(<<"9">>)},
     s \in {EmptyState, Recorded(p)}, f \in {Null, Some(EmptyState), Some(Recorded(p))}}

\* Every target file of record m holds the text the patch replaces and not
\* the text it puts.
AllUnpatched(w, m) ==
  \A i \in 1..Len(resolveTargetFiles(m.targetFiles)) :
    /\ Includes(w.tree[resolveTargetFiles(m.targetFiles)[i]], <<"a">>)
    /\ ~Includes(w.tree[resolveTargetFiles(m.targetFiles)[i]], <<"b">>)

AllPatched(files, m) ==
  \A i \in 1..Len(resolveTargetFiles(m.targetFiles)) :
    /\ ~Includes(files[resolveTargetFiles(m.targetFiles)[i]], <<"a">>)
    /\ Includes(files[resolveTargetFiles(m.targetFiles)[i]], <<"b">>)

\* C26: for the enabled, unresolved patch p1, the state checkPatch returns is
\* the state it returns in every world that differs only in the record's
\* appliedAt and appliedVersion and in RunState; and when the record of a
\* diff or js patch is stamped applied and all its target files hold the
\* unpatched text, checkPatch reports it pending and applyAll patches the
\* files again and reports it applied.
C26_StateFromContent ==
  /\ (last.op = "checkPatch" /\ Live(Pre.meta[last.arg])) =>
       /\ \A v \in Restamped(Pre, last.arg) :
            checkPatch(v, last.arg).status.state = last.results[1].state
       /\ (/\ Pre.meta[last.arg][1].appliedAt # Null
           /\ Pre.meta[last.arg][1].type # "asset"
           /\ AllUnpatched(Pre, Pre.meta[last.arg][1]))
            => last.results[1].state = "pending"
  /\ (/\ last.op = "applyAll"
      /\ Live(Pre.meta["p1"])
      /\ Pre.meta["p1"][1].appliedAt # Null
      /\ Pre.meta["p1"][1].type # "asset"
      /\ jsmod["p1"] # "throws"
      /\ AllUnpatched(Pre, Pre.meta["p1"][1]))
       => /\ AllPatched(tree, Pre.meta["p1"][1])
          /\ last.results[1].state = "applied"
          /\ last.results[1].message.text = "Applied file(s)"

\* The record of p1 was stamped applied and file x patched, a release put
\* the unpatched text back, and applyAll patched x again.
C26_Witness ==
  /\ last.op = "applyAll"
  /\ last.prev.op = "release"
  /\ Pre.meta["p1"] # Null
  /\ Pre.meta["p1"][1].appliedAt = Some(0)
  /\ Pre.tree[<<"x">>] = <<"a">>
  /\ tree[<<"x">>] = <<"b">>
  /\ last.results[1].state = "applied"


\* ------------------------------------------------- the state file over runs

\* new PatchManager(cfg): this.state starts empty whatever the state file
\* holds, until loadState reads the file.
NewManager ==
  /\ last.n < MaxOps
  /\ Commit([World EXCEPT !.state = EmptyState], "restart", "", <<>>)

\* Diff patches p1 on file x and p2 on file y in a gateway that has just
\* constructed its PatchManager; the state file is absent or was written by
\* the pass of an earlier run that applied p2.
RestartInit ==
  /\ stateFile \in {Null, Some(Recorded("p2"))}
  /\ meta = [p \in Patches |->
       IF p = "p1" THEN Some(PatchMeta("diff", << <<"x">> >>, TRUE, Null, Null, Null, Null))
       ELSE Some([PatchMeta("diff", << <<"y">> >>, TRUE, Null, Null, Null, Null)
                    EXCEPT !.appliedAt = IF stateFile = Null THEN Null ELSE Some(0),
                           !.appliedVersion = IF stateFile = Null THEN Null
                                              ELSE Some(<<"1">>)])]
  /\ diff = [p \in Patches |-> Some(TheDiff)]
  /\ jsmod = [p \in Patches |-> "none"]
  /\ srcKind = [s \in Srcs |-> "none"]
  /\ \E cx \in {<<"a">>, <<"b">>, <<"u">>} :
       tree = [f \in FileNames |->
                 IF f = <<"x">> THEN cx
                 ELSE IF stateFile = Null THEN <<"a">> ELSE <<"b">>]
  /\ pkgVersion = Some(<<"1">>)
  /\ stateFileWritable = TRUE
  /\ backupBeforePatch = FALSE
  /\ bak = [f \in FileNames |-> Null]
  /\ destKind = [d \in Dests |-> "none"]
  /\ state = EmptyState
  /\ clock = 1
  /\ last = NoOp
  /\ calls = NoCalls
  /\ pure = <<>>

RestartNext ==
  \/ \E p \in Patches : CheckPatch(p) \/ ApplyPatch(p)
  \/ ApplyAll
  \/ CheckAll
  \/ RunAutoApply
  \/ GetStatusSummary
  \/ NewManager
  \/ \E f \in FileNames, c \in {<<"a">>, <<"u">>} : UpstreamRelease(f, c)

SpecRestart == RestartInit /\ [][RestartNext]_vars

\* C39: an operation that starts with a state file holding lastPatchedVersion
\* and lastPatchedAt leaves a state file that holds both and still holds an
\* outcome for every patch that had one.
C39_RunStateForward ==
  (/\ last.op # "none"
   /\ Pre.stateFile # Null
   /\ Pre.stateFile[1].lastPatchedVersion # Null
   /\ Pre.stateFile[1].lastPatchedAt # Null)
    => /\ stateFile # Null
       /\ stateFile[1].lastPatchedVersion # Null
       /\ stateFile[1].lastPatchedAt # Null
       /\ \A p \in Patches :
            Pre.stateFile[1].patchResults[p] # Null => stateFile[1].patchResults[p] # Null


\* --------------------------------------------------- a run that stops

\* applyPatch on a pending diff or js patch up to the write of its k-th
\* target file, where the run stops: Null when applyPatch does not get there.
stoppedAfter(c, p, k) ==
  IF c.status.state # "pending" \/ c.status.meta[1].type = "asset"
     \/ k > Len(resolveTargetFiles(c.status.meta[1].targetFiles))
  THEN Null
  ELSE IF applyTargets(c.w, p, c.status.meta[1],
                       SubSeq(resolveTargetFiles(c.status.meta[1].targetFiles), 1, k)).err # Null
  THEN Null
  ELSE Some(applyTargets(c.w, p, c.status.meta[1],
                         SubSeq(resolveTargetFiles(c.status.meta[1].targetFiles), 1, k)).w)

\* The process is killed in applyPatch(p) after the write of the k-th target
\* file and before the record is written.
StopInApply(p, k) ==
  /\ last.n < MaxOps
  /\ stoppedAfter(checkPatch(World, p), p, k) # Null
  /\ Commit(stoppedAfter(checkPatch(World, p), p, k)[1], "crash", p, <<>>)

\* Patch p1 is a diff or js patch on file x or on both files, not yet
\* applied; patch p2 has no readable record.
CrashInit ==
  /\ \E k \in {Kind("diff", << <<"x">> >>, "none", "none"),
               Kind("diff", << <<"*">> >>, "none", "none"),
               Kind("js", << <<"x">> >>, "template", "none"),
               Kind("js", << <<"*">> >>, "template", "none")} :
       /\ meta = [p \in Patches |->
                    IF p = "p1"
                    THEN Some(PatchMeta(k.type, k.targetFiles, TRUE, Null, Null, Null, Null))
                    ELSE Null]
       /\ jsmod = [p \in Patches |-> IF p = "p1" THEN k.mod ELSE "none"]
  /\ diff = [p \in Patches |-> Some(TheDiff)]
  /\ srcKind = [s \in Srcs |-> "none"]
  /\ \E cx \in {<<"a">>, <<"b">>}, cy \in {<<"a">>, <<"b">>} :
       tree = [f \in FileNames |-> IF f = <<"x">> THEN cx ELSE cy]
  /\ pkgVersion = Some(<<"1">>)
  /\ stateFileWritable = TRUE
  /\ backupBeforePatch \in BOOLEAN
  /\ Fresh

CrashNext ==
  \/ \E k \in 1..Len(DirListing) : StopInApply("p1", k)
  \/ ApplyAll

SpecCrash == CrashInit /\ [][CrashNext]_vars

\* The target files of record m that hold the text the patch replaces.
Unpatched(files, m) ==
  {f \in {resolveTargetFiles(m.targetFiles)[i] :
            i \in 1..Len(resolveTargetFiles(m.targetFiles))} :
     Includes(files[f], <<"a">>)}

\* C27: in the applyAll that follows a run stopped inside applyPatch of p1,
\* p1 is reported applied and afterwards no target file holds the old text;
\* when the stopped run had written all the target files, applyAll writes
\* and backs up no target file.
C27_CrashRecovery ==
  (last.op = "applyAll" /\ last.prev.op = "crash") =>
    /\ last.results[1].name = "p1"
    /\ last.results[1].state = "applied"
    /\ Unpatched(tree, Pre.meta["p1"][1]) = {}
    /\ Unpatched(Pre.tree, Pre.meta["p1"][1]) = {} =>
         \A i \in 1..Len(last.io) : last.io[i].op \notin {"writeTarget", "writeBak"}


\* applyAll and checkAll over one diff patch on file x.
SpecReapply == DiffInit /\ [][PassNext]_vars

\* C32: no result of applyAll is pending, and a checkAll that follows an
\* applyAll directly reports no patch pending that the applyAll reported
\* applied.
C32_NoPendingLeft ==
  /\ last.op = "applyAll" =>
       \A i \in 1..Len(last.results) : last.results[i].state # "pending"
  /\ (last.op = "checkAll" /\ last.prev.op = "applyAll") =>
       \A i \in 1..Len(last.results) :
         (i <= Len(last.prev.results) /\ last.prev.results[i].state = "applied")
           => last.results[i].state # "pending"


\* ------------------------------------------------ a patch.diff in pieces

\* The text t without its i-th token.
Without(t, i) == SubSeq(t, 1, i - 1) \o SubSeq(t, i + 1, Len(t))

\* The one-block patch.diff whole, with each of its tokens in turn left
\* out, and empty.
BrokenDiffs == {TheDiff, <<>>} \cup {Without(TheDiff, i) : i \in 1..Len(TheDiff)}

\* Patch p1 is an enabled diff patch with one of these texts as patch.diff,
\* on file x, on every file or on no file; there is no other patch.
BrokenInit ==
  /\ \E t \in BrokenDiffs, patterns \in {<< <<"x">> >>, << <<"*">> >>, << <<"z">> >>} :
       /\ meta = [p \in Patches |->
            IF p = "p1" THEN Some(PatchMeta("diff", patterns, TRUE, Null, Null, Null, Null))
            ELSE Null]
       /\ diff = [p \in Patches |-> IF p = "p1" THEN Some(t) ELSE Null]
  /\ jsmod = [p \in Patches |-> "none"]
  /\ srcKind = [s \in Srcs |-> "none"]
  /\ \E cx \in {<<"a">>, <<"b">>, <<"u">>} :
       tree = [f \in FileNames |-> IF f = <<"x">> THEN cx ELSE <<"a">>]
  /\ pkgVersion = Some(<<"1">>)
  /\ stateFileWritable = TRUE
  /\ backupBeforePatch = TRUE
  /\ Fresh

SpecBroken == BrokenInit /\ [][DiffNext]_vars

\* The patch.diff of p1 yields no hunk and the patterns of p1 match a file.
NoHunksOnFiles(w) ==
  /\ Live(w.meta["p1"])
  /\ HunksOf("p1") = <<>>
  /\ resolveTargetFiles(w.meta["p1"][1].targetFiles) # <<>>

\* C33: for a diff patch whose patch.diff yields no hunk and whose patterns
\* match a file, checkPatch returns error with the message "No valid hunks
\* in patch.diff", and applyPatch returns the same and leaves the target
\* files, the backups, the record and the state file as they were.
C33_NoHunksIsError ==
  (last.op \in {"checkPatch", "applyPatch"} /\ last.arg = "p1" /\ NoHunksOnFiles(Pre))
    => /\ last.results[1].state = "error"
       /\ last.results[1].message = Msg("No valid hunks in patch.diff", <<>>)
       /\ WritingEvents(last.io) = {}
       /\ tree = Pre.tree
       /\ bak = Pre.bak
       /\ meta = Pre.meta
       /\ stateFile = Pre.stateFile

\* applyPatch ran on a patch.diff that lacks its END marker while file x
\* held the old text.
C33_Witness ==
  /\ last.op = "applyPatch"
  /\ NoHunksOnFiles(Pre)
  /\ diff["p1"] = Some(Without(TheDiff, 9))
  /\ Pre.tree[<<"x">>] = <<"a">>
  /\ last.results[1].state = "error"


\* ------------------------------------------------ modules that fail

\* Patch p1 is an enabled js patch with each of the modules, on file x or
\* on every file; there is no other patch.
ModulesInit ==
  /\ \E mod \in JsModules, patterns \in {<< <<"x">> >>, << <<"*">> >>} :
       /\ meta = [p \in Patches |->
            IF p = "p1" THEN Some(PatchMeta("js", patterns, TRUE, Null, Null, Null, Null))
            ELSE Null]
       /\ jsmod = [p \in Patches |-> IF p = "p1" THEN mod ELSE "none"]
  /\ diff = [p \in Patches |-> Null]
  /\ srcKind = [s \in Srcs |-> "none"]
  /\ \E cx \in {<<"a">>, <<"b">>, <<"u">>}, cy \in {<<"a">>, <<"b">>, <<"u">>} :
       tree = [f \in FileNames |-> IF f = <<"x">> THEN cx ELSE cy]
  /\ pkgVersion = Some(<<"1">>)
  /\ stateFileWritable = TRUE
  /\ backupBeforePatch \in BOOLEAN
  /\ Fresh

SpecModules == ModulesInit /\ [][DiffNext]_vars

\* The target files of p1 before the last operation.
TargetsOfP1 == resolveTargetFiles(Pre.meta["p1"][1].targetFiles)

\* The places in the target list at which the module's apply throws.
ThrowsAt == {k \in 1..Len(TargetsOfP1) : JsApply(jsmod["p1"], Pre.tree[TargetsOfP1[k]]) = Null}

FirstThrow == CHOOSE k \in ThrowsAt : \A j \in ThrowsAt : k <= j

\* C34: a js patch whose module cannot be loaded, or whose isResolved or
\* check throws, has the result error; and when applyPatch finds the patch
\* pending and the module's apply throws for the k-th target file, the
\* result is error, the k-th file and the files after it hold what they
\* held, the files before it hold what apply made of them, and the record
\* and the state file are as they were.
C34_ModuleFailureIsError ==
  (last.op \in {"checkPatch", "applyPatch"} /\ last.arg = "p1") =>
    /\ jsmod["p1"] \in {"none", "checkThrows", "resolvedThrows"}
         => last.results[1].state = "error"
    /\ (/\ last.op = "applyPatch"
        /\ checkPatch(Pre, "p1").status.state = "pending"
        /\ ThrowsAt # {})
         => /\ last.results[1].state = "error"
            /\ \A k \in 1..Len(TargetsOfP1) :
                 tree[TargetsOfP1[k]] =
                   IF k < FirstThrow
                   THEN JsApply(jsmod["p1"], Pre.tree[TargetsOfP1[k]])[1]
                   ELSE Pre.tree[TargetsOfP1[k]]
            /\ meta = Pre.meta
            /\ stateFile = Pre.stateFile
            /\ state = Pre.state

\* The apply of the module threw for the second file after the first file
\* had been written.
C34_Witness ==
  /\ last.op = "applyPatch"
  /\ jsmod["p1"] = "strict"
  /\ TargetsOfP1 = << <<"x">>, <<"y">> >>
  /\ Pre.tree[<<"x">>] = <<"a">>
  /\ Pre.tree[<<"y">>] = <<"b">>
  /\ tree[<<"x">>] = <<"b">>
  /\ last.results[1].state = "error"
  /\ meta["p1"][1].appliedAt = Null


\* ------------------------------------------------ an imported module at work

\* Patch p1 is the ProgrammableEdit patch of a PR import on file x, over the
\* contents of x; p2 is a diff patch on file y.
GeneratedInit ==
  /\ Patched(Kind("js", << <<"x">> >>, "generated", "none"), TRUE, TRUE, Null, Null, Null)
  /\ \E cx \in {<<"a">>, <<"b">>, <<"u">>, <<"a", "u">>}, cy \in {<<"a">>, <<"b">>} :
       tree = [f \in FileNames |-> IF f = <<"x">> THEN cx ELSE cy]
  /\ pkgVersion = Some(<<"1">>)
  /\ stateFileWritable = TRUE
  /\ backupBeforePatch \in BOOLEAN
  /\ Fresh

GeneratedNext ==
  \/ CheckPatch("p1")
  \/ ApplyAll
  \/ CheckAll
  \/ \E c \in {<<"a">>, <<"u">>} : UpstreamRelease(<<"x">>, c)

SpecGenerated == GeneratedInit /\ [][GeneratedNext]_vars

\* C40: after an applyAll that applied the imported patch p1, the check that
\* follows reports p1 applied, and a following applyAll leaves the resolvedAt
\* of its record null.
C40_OwnFixNotUpstream ==
  (/\ last.prev.op = "applyAll"
   /\ last.prev.results[1].state = "applied"
   /\ last.prev.results[1].message.text = "Applied file(s)"
   /\ last.op \in {"checkPatch", "checkAll", "applyAll"})
    => /\ last.results[1].state = "applied"
       /\ meta["p1"][1].resolvedAt = Null


\* ------------------------------------------------ operations in flight

\* The plugin builds one PatchManager and hands it to the service, the tools
\* and the CLI.  An operation runs until its next await and resumes when
\* the awaited I/O has completed; whatever else the host started runs in
\* between.  A step below is the code between two awaits of the operation
\* together with the I/O it awaits; the reads of checkPatch are one step, as
\* are the two writes that record an apply.  The patches are diff and js
\* patches.

\* The patch a call is at, the record its check read and its target files.
patchOf(r) == r.names[r.i]

metaOf(r) == r.status[1].meta[1]

targetsOf(r) == resolveTargetFiles(metaOf(r).targetFiles)

\* The for loop of applyAll moves to the next name; after the last one
\* runAutoApply goes on to its own writes and the others return.
advance(r, status) ==
  IF r.i < Len(r.names)
  THEN [r EXCEPT !.pc = "check", !.i = @ + 1, !.status = Null, !.k = 0, !.content = Null]
  ELSE [r EXCEPT !.pc = IF r.op = "runAutoApply" THEN "finish" ELSE "done",
                 !.status = Some(status), !.k = 0, !.content = Null]

\* Call c took the step of r0.pc on patch p, left the world w and is at r.
Step(c, p, w, r) ==
  /\ meta' = w.meta
  /\ tree' = w.tree
  /\ bak' = w.bak
  /\ destKind' = w.destKind
  /\ state' = w.state
  /\ stateFile' = w.stateFile
  /\ clock' = w.clock
  /\ calls' = [run |-> [calls.run EXCEPT ![c] = r],
               log |-> Append(calls.log, [call |-> c, patch |-> p, step |-> calls.run[c].pc])]
  /\ UNCHANGED <<diff, jsmod, srcKind, pkgVersion, backupBeforePatch,
                 stateFileWritable, last, pure>>

Started(op, names) == [NotStarted EXCEPT !.op = op, !.pc = "check", !.names = names, !.i = 1]

\* The service's start: runAutoApply loads the state and lists the patches.
StartService ==
  /\ calls.run["service"].pc = "idle"
  /\ Truthy(getInstalledVersion)
  /\ Step("service", "", loadState(World), Started("runAutoApply", discoverPatches))

\* patcher_apply without a name: applyAll lists the patches.
StartApplyAll ==
  /\ calls.run["tool"].pc = "idle"
  /\ Step("tool", "", World, Started("applyAll", discoverPatches))

\* patcher_apply with a name: applyPatch(name).
StartApplyPatch(p) ==
  /\ calls.run["tool"].pc = "idle"
  /\ Step("tool", "", World, Started("applyPatch", <<p>>))

\* Where applyPatch and the loop of applyAll go with the status of the check.
checked(r, status) ==
  IF status.state = "pending"
  THEN [r EXCEPT !.pc = "read", !.status = Some(status), !.k = 1]
  ELSE IF status.state = "resolved" /\ r.op # "applyPatch"
  THEN [r EXCEPT !.pc = "resolve", !.status = Some(status)]
  ELSE advance(r, status)

\* const status = await this.checkPatch(patchName)
Check(c) ==
  /\ calls.run[c].pc = "check"
  /\ Step(c, patchOf(calls.run[c]), World,
          checked(calls.run[c], checkPatch(World, patchOf(calls.run[c])).status))

\* const content = await fs.readFile(filePath, "utf-8")
Read(c) ==
  /\ calls.run[c].pc = "read"
  /\ Step(c, patchOf(calls.run[c]), World,
          [calls.run[c] EXCEPT
             !.pc = IF backupBeforePatch THEN "backup" ELSE "write",
             !.content = Some(tree[targetsOf(calls.run[c])[calls.run[c].k]])])

\* await fs.writeFile(`${filePath}.bak`, content, "utf-8")
Backup(c) ==
  /\ calls.run[c].pc = "backup"
  /\ Step(c, patchOf(calls.run[c]),
          backupTarget(World, patchOf(calls.run[c]),
                       targetsOf(calls.run[c])[calls.run[c].k], calls.run[c].content[1]),
          [calls.run[c] EXCEPT !.pc = "write"])

\* The content a call read, transformed by its patch: Null when the patch
\* cannot be loaded.
patchedOf(r) ==
  IF metaOf(r).type = "js"
  THEN IF loadJsPatchModule(patchOf(r)) = Null THEN Null
       ELSE JsApply(loadJsPatchModule(patchOf(r))[1], r.content[1])
  ELSE IF diff[patchOf(r)] = Null THEN Null
  ELSE Some(applyDiffHunks(r.content[1], parseDiffHunks(diff[patchOf(r)][1])))

\* await fs.writeFile(filePath, patched, "utf-8"), or the return or catch
\* that ends applyPatch in an error.
Write(c) ==
  /\ calls.run[c].pc = "write"
  /\ IF patchedOf(calls.run[c]) = Null
     THEN Step(c, patchOf(calls.run[c]), World,
               advance(calls.run[c],
                       [calls.run[c].status[1] EXCEPT !.state = "error",
                          !.message = Msg("Apply failed", <<"transform">>)]))
     ELSE Step(c, patchOf(calls.run[c]),
               [World EXCEPT !.tree[targetsOf(calls.run[c])[calls.run[c].k]] =
                               patchedOf(calls.run[c])[1]],
               IF calls.run[c].k < Len(targetsOf(calls.run[c]))
               THEN [calls.run[c] EXCEPT !.pc = "read", !.k = @ + 1, !.content = Null]
               ELSE [calls.run[c] EXCEPT !.pc = "record", !.content = Null])

\* The record the call read at its check, stamped applied.
stampedOf(r) ==
  [metaOf(r) EXCEPT !.appliedAt = Some(clock), !.appliedVersion = getInstalledVersion]

\* await this.writePatchMeta(patchName, meta) and await this.saveState()
Record(c) ==
  /\ calls.run[c].pc = "record"
  /\ Step(c, patchOf(calls.run[c]),
          applyStamped(Out(World, calls.run[c].status[1]), patchOf(calls.run[c]),
                       World, stampedOf(calls.run[c])).w,
          advance(calls.run[c],
                  applyStamped(Out(World, calls.run[c].status[1]), patchOf(calls.run[c]),
                               World, stampedOf(calls.run[c])).status))

\* applyAll on a resolved status: readPatchMeta and writePatchMeta.
Resolve(c) ==
  /\ calls.run[c].pc = "resolve"
  /\ Step(c, patchOf(calls.run[c]),
          markResolved(Out(World, calls.run[c].status[1]), patchOf(calls.run[c])).w,
          advance(calls.run[c], calls.run[c].status[1]))

\* runAutoApply after applyAll: lastPatchedVersion, lastPatchedAt, saveState.
Finish(c) ==
  /\ calls.run[c].pc = "finish"
  /\ Step(c, "", autoStamp([w |-> World, results |-> <<>>]).w,
          [calls.run[c] EXCEPT !.pc = "done"])

\* Patch p1 is a diff or js patch on file x, which holds the old text or an
\* upstream fix; patch p2 is a diff patch on file y, which holds the new
\* text already.  Files are backed up before they are patched.
FlightInit ==
  /\ \E k \in {Kind("diff", << <<"x">> >>, "none", "none"),
               Kind("js", << <<"x">> >>, "template", "none")} :
       /\ meta = [p \in Patches |->
                    IF p = "p1"
                    THEN Some(PatchMeta(k.type, k.targetFiles, TRUE, Null, Null, Null, Null))
                    ELSE Some(PatchMeta("diff", << <<"y">> >>, TRUE, Null, Null, Null, Null))]
       /\ jsmod = [p \in Patches |-> IF p = "p1" THEN k.mod ELSE "none"]
  /\ diff = [p \in Patches |-> Some(TheDiff)]
  /\ srcKind = [s \in Srcs |-> "none"]
  /\ \E cx \in {<<"a">>, <<"u">>} :
       tree = [f \in FileNames |-> IF f = <<"x">> THEN cx ELSE <<"b">>]
  /\ pkgVersion = Some(<<"1">>)
  /\ stateFileWritable = TRUE
  /\ backupBeforePatch = TRUE
  /\ Fresh

FlightNext ==
  \/ StartService
  \/ StartApplyAll
  \/ \E p \in Patches : StartApplyPatch(p)
  \/ \E c \in Callers : Check(c)
  \/ \E c \in Callers : Read(c)
  \/ \E c \in Callers : Backup(c)
  \/ \E c \in Callers : Write(c)
  \/ \E c \in Callers : Record(c)
  \/ \E c \in Callers : Resolve(c)
  \/ \E c \in Callers : Finish(c)

SpecFlight == FlightInit /\ [][FlightNext]_vars

\* The steps of call c in the order they were taken.
StepsOf(c) == SelectSeq(calls.log, LAMBDA e : e.call = c /\ e.patch # "")

\* The place of a patch in the listing of the patches directory.
PlaceOf(p) == CHOOSE n \in 1..Len(discoverPatches) : discoverPatches[n] = p

\* Within a pass no step for a patch follows a step for a later patch.
PassInOrder ==
  \A c \in Callers : \A m, n \in 1..Len(StepsOf(c)) :
    m < n => PlaceOf(StepsOf(c)[m].patch) <= PlaceOf(StepsOf(c)[n].patch)

\* No step of one call lies between two steps of another.
NoInterleaving ==
  \A l, m, n \in 1..Len(calls.log) :
    (l < m /\ m < n /\ calls.log[l].call = calls.log[n].call)
      => calls.log[m].call = calls.log[l].call

\* C29: within a pass every step for a patch comes before every step for
\* the patches after it in lexicographic name order, and the steps of two
\* operations started on the plugin's PatchManager never interleave.
C29_OneAtATime == PassInOrder /\ NoInterleaving


\* ------------------------------------------------- helpers on their own

\* The engine at rest: no readable patch, every file empty.
EngineIdle ==
  /\ meta = [p \in Patches |-> Null]
  /\ diff = [p \in Patches |-> Null]
  /\ jsmod = [p \in Patches |-> "none"]
  /\ tree = [f \in FileNames |-> <<>>]
  /\ bak = [f \in FileNames |-> Null]
  /\ destKind = [d \in Dests |-> "none"]
  /\ srcKind = [s \in Srcs |-> "none"]
  /\ pkgVersion = Null
  /\ backupBeforePatch = FALSE
  /\ stateFile = Null
  /\ stateFileWritable = TRUE
  /\ state = EmptyState
  /\ clock = 1
  /\ last = NoOp
  /\ calls = NoCalls

EngineVars == <<meta, diff, jsmod, tree, bak, destKind, srcKind, pkgVersion,
                backupBeforePatch, stateFile, stateFileWritable, state, clock, last,
                calls>>

\* applyDiffHunks on a content and a hunk list, then again on its own result.
HunksInit ==
  /\ EngineIdle
  /\ \E c \in Strings(MaxContentLen), hs \in SeqsUpTo(Hunks(Strings(MaxTextLen)), MaxHunks) :
       pure = [stage |-> "input", content |-> c, hunks |-> hs, out |-> <<>>, again |-> <<>>]

ApplyHunks ==
  /\ pure.stage = "input"
  /\ pure' = [pure EXCEPT !.stage = "applied",
                          !.out = applyDiffHunks(pure.content, pure.hunks)]
  /\ UNCHANGED EngineVars

ApplyHunksAgain ==
  /\ pure.stage = "applied"
  /\ pure' = [pure EXCEPT !.stage = "twice",
                          !.again = applyDiffHunks(pure.out, pure.hunks)]
  /\ UNCHANGED EngineVars

HunksNext == ApplyHunks \/ ApplyHunksAgain

SpecHunks == HunksInit /\ [][HunksNext]_vars

\* The replacement the specification describes: the first occurrence of old
\* gives way to new, character for character.
LiteralReplace(c, old, new) ==
  LET i == IndexOf(c, old)
  IN  IF i = 0 THEN c ELSE SubSeq(c, 1, i - 1) \o new \o SubSeq(c, i + Len(old), Len(c))

RECURSIVE LiteralApply(_, _)
LiteralApply(content, hunks) ==
  IF hunks = <<>> THEN content
  ELSE LiteralApply(LiteralReplace(content, Head(hunks).oldText, Head(hunks).newText),
                    Tail(hunks))

\* C8: applyDiffHunks replaces, hunk after hunk on the updated content, the
\* first occurrence of oldText by newText taken literally, and skips a hunk
\* whose oldText does not occur.
C8_LiteralFirstOccurrence ==
  pure.stage # "input" => pure.out = LiteralApply(pure.content, pure.hunks)

\* C9: applying a hunk list to its own result changes nothing.
C9_ApplyIdempotent ==
  pure.stage = "twice" => pure.again = pure.out


\* ------------------------------------------------------------ file globs

\* Bound of the glob runs: the characters of a file name and of a pattern.
GlobLen == 3

\* matchGlob on a file name of letters, dots and line ends and a pattern of
\* letters, dots and wildcards.
GlobInit ==
  /\ EngineIdle
  /\ \E f \in SeqsUpTo({"a", ".", NL}, GlobLen), g \in SeqsUpTo({"a", ".", "*", "?"}, GlobLen) :
       pure = [stage |-> "input", filename |-> f, pattern |-> g, out |-> FALSE]

MatchGlob ==
  /\ pure.stage = "input"
  /\ pure' = [pure EXCEPT !.stage = "matched",
                !.out = matchGlob(pure.filename, pure.pattern)]
  /\ UNCHANGED EngineVars

SpecGlob == GlobInit /\ [][MatchGlob]_vars

\* The whole of filename matches the glob: "*" stands for any run of
\* characters, "?" for any one character, any other character for itself.
RECURSIVE GlobMatches(_, _)
GlobMatches(filename, pattern) ==
  IF pattern = <<>> THEN filename = <<>>
  ELSE IF Head(pattern) = "*"
  THEN \E k \in 0..Len(filename) :
         GlobMatches(SubSeq(filename, k + 1, Len(filename)), Tail(pattern))
  ELSE /\ filename # <<>>
       /\ (Head(pattern) = "?" \/ Head(pattern) = Head(filename))
       /\ GlobMatches(Tail(filename), Tail(pattern))

\* C28: matchGlob is true exactly when the whole file name matches the
\* pattern, "*" standing for any run of characters, possibly empty, "?" for
\* exactly one character and every other character for itself.
C28_GlobSemantics ==
  pure.stage = "matched" => (pure.out <=> GlobMatches(pure.filename, pure.pattern))


\* ------------------------------------------------------ version helpers

\* Version strings of the range runs: digits and dots.
RangeVersions == UNION {[1..k -> {"1", "2", "."}] : k \in 0..RangeVersionLen}

\* matchVersionRange on a version and two optional bounds.
RangeInit ==
  /\ EngineIdle
  /\ \E v \in RangeVersions, lo \in Optional(RangeVersions), hi \in Optional(RangeVersions) :
       pure = [stage |-> "input", version |-> v, minVersion |-> lo, maxVersion |-> hi,
               out |-> Null]

MatchRange ==
  /\ pure.stage = "input"
  /\ pure' = [pure EXCEPT !.stage = "matched",
                !.out = Some(matchVersionRange(pure.version, pure.minVersion,
                                               pure.maxVersion))]
  /\ UNCHANGED EngineVars

SpecRange == RangeInit /\ [][MatchRange]_vars

\* C11: matchVersionRange matches exactly when the version is not below a
\* set minVersion and is below a set maxVersion under compareVersions; a
\* version below minVersion is rejected with the below-minimum reason naming
\* the version and minVersion, whatever maxVersion is; any other rejection
\* carries the at-or-above-maximum reason.
C11_RangeSemantics ==
  pure.stage = "matched" =>
    /\ pure.out[1].matches = InRange(pure.version, pure.minVersion, pure.maxVersion)
    /\ (Truthy(pure.minVersion) /\ compareVersions(pure.version, pure.minVersion[1]) < 0)
         => pure.out[1].reason = Msg("Version is below minimum",
                                     pure.version \o <<" ">> \o pure.minVersion[1])
    /\ (~pure.out[1].matches
        /\ ~(Truthy(pure.minVersion) /\ compareVersions(pure.version, pure.minVersion[1]) < 0))
         => pure.out[1].reason = Msg("Version is at or above maximum",
                                     pure.version \o <<" ">> \o pure.maxVersion[1])

\* A version below its minVersion and equal to its maxVersion was rejected
\* with the below-minimum reason.
C11_Witness ==
  /\ pure.stage = "matched"
  /\ pure.minVersion = Some(<<"2">>)
  /\ pure.maxVersion = Some(<<"1">>)
  /\ pure.version = <<"1">>
  /\ ~pure.out[1].matches
  /\ pure.out[1].reason.text = "Version is below minimum"

\* Version strings of the comparison runs: digits, dots, a suffix dash and a
\* letter.
CmpVersions == UNION {[1..k -> {"1", "2", ".", "-", "x"}] : k \in 0..CmpVersionLen}

\* compareVersions on the pairs of three version strings.
CompareInit ==
  /\ EngineIdle
  /\ \E a \in CmpVersions, b \in CmpVersions, c \in CmpVersions :
       pure = [stage |-> "input", a |-> a, b |-> b, c |-> c,
               aa |-> 0, ab |-> 0, ba |-> 0, bc |-> 0, ac |-> 0]

Compare ==
  /\ pure.stage = "input"
  /\ pure' = [pure EXCEPT !.stage = "compared",
                !.aa = compareVersions(pure.a, pure.a),
                !.ab = compareVersions(pure.a, pure.b),
                !.ba = compareVersions(pure.b, pure.a),
                !.bc = compareVersions(pure.b, pure.c),
                !.ac = compareVersions(pure.a, pure.c)]
  /\ UNCHANGED EngineVars

SpecCompare == CompareInit /\ [][Compare]_vars

\* C12: compareVersions is reflexive, antisymmetric and transitive on the
\* version strings a record may hold: a = a; the comparison of b with a is
\* the negation of that of a with b; from a <= b and b <= c follows a <= c,
\* and from a = b and b = c follows a = c.
C12_CompareIsOrder ==
  pure.stage = "compared" =>
    /\ pure.aa = 0
    /\ pure.ba = 0 - pure.ab
    /\ (pure.ab <= 0 /\ pure.bc <= 0) => pure.ac <= 0
    /\ (pure.ab = 0 /\ pure.bc = 0) => pure.ac = 0


\* ---------------------------------------------------------- import of a PR

\* The default minLength of findMinimalPattern.
MinLength == 20

\* The length of the preview of an unmapped hunk.
PreviewLength == 100

\* Texts of a pull request are sequences of tokens: single characters, the
\* arrow, and runs of one to twenty letters w.
WRuns ==
  <<"w",
   "ww",
   "www",
   "wwww",
   "wwwww",
   "wwwwww",
   "wwwwwww",
   "wwwwwwww",
   "wwwwwwwww",
   "wwwwwwwwww",
   "wwwwwwwwwww",
   "wwwwwwwwwwww",
   "wwwwwwwwwwwww",
   "wwwwwwwwwwwwww",
   "wwwwwwwwwwwwwww",
   "wwwwwwwwwwwwwwww",
   "wwwwwwwwwwwwwwwww",
   "wwwwwwwwwwwwwwwwww",
   "wwwwwwwwwwwwwwwwwww",
   "wwwwwwwwwwwwwwwwwwww">>

Word20 == WRuns[Len(WRuns)]

\* The length of each run.
WRunLength ==
  [t \in {WRuns[k] : k \in 1..Len(WRuns)} |-> CHOOSE k \in 1..Len(WRuns) : WRuns[k] = t]

tokenLength(t) ==
  IF t \in DOMAIN WRunLength THEN WRunLength[t] ELSE IF t = "=>" THEN 2 ELSE 1

\* text.length
RECURSIVE charLength(_)
charLength(text) ==
  IF text = <<>> THEN 0 ELSE tokenLength(Head(text)) + charLength(Tail(text))

\* The first n characters of a token longer than n.
cut(t, n) == IF t = "=>" THEN "=" ELSE WRuns[n]

\* text.slice(0, n)
RECURSIVE slice(_, _)
slice(text, n) ==
  IF text = <<>> \/ n <= 0 THEN <<>>
  ELSE IF tokenLength(Head(text)) > n THEN <<cut(Head(text), n)>>
  ELSE <<Head(text)>> \o slice(Tail(text), n - tokenLength(Head(text)))

\* line.trim()
RECURSIVE trimStart(_)
trimStart(line) ==
  IF line # <<>> /\ Head(line) = " " THEN trimStart(Tail(line)) ELSE line

RECURSIVE trimEnd(_)
trimEnd(line) ==
  IF line # <<>> /\ line[Len(line)] = " "
  THEN trimEnd(SubSeq(line, 1, Len(line) - 1)) ELSE line

trim(line) == trimEnd(trimStart(line))

startsWith(line, prefix) ==
  Len(line) >= Len(prefix) /\ SubSeq(line, 1, Len(prefix)) = prefix

\* The words findMinimalPattern takes for distinctive.
Keywords == {"function ", "const ", "let ", "export ", "=>"}

\* The first test of findMinimalPattern on a trimmed line.
distinctive(trimmed) ==
  \/ \E i \in 1..Len(trimmed) : trimmed[i] \in Keywords
  \/ (charLength(trimmed) >= MinLength /\ ~startsWith(trimmed, <<"/", "/">>))

\* The first line of lines[i..] that passes the first test, trimmed.
RECURSIVE firstDistinctive(_, _)
firstDistinctive(lines, i) ==
  IF i > Len(lines) THEN Null
  ELSE IF distinctive(trim(lines[i])) THEN Some(trim(lines[i]))
  ELSE firstDistinctive(lines, i + 1)

\* The first line of lines[i..] of at least minLength characters, trimmed.
RECURSIVE firstLong(_, _)
firstLong(lines, i) ==
  IF i > Len(lines) THEN Null
  ELSE IF charLength(trim(lines[i])) >= MinLength THEN Some(trim(lines[i]))
  ELSE firstLong(lines, i + 1)

nonBlank(line) == charLength(trim(line)) > 0

minimalPatternOf(oldText, lines) ==
  IF firstDistinctive(lines, 1) # Null THEN firstDistinctive(lines, 1)[1]
  ELSE IF firstLong(lines, 1) # Null THEN firstLong(lines, 1)[1]
  ELSE slice(oldText, PreviewLength)

findMinimalPattern(oldText) ==
  minimalPatternOf(oldText, SelectSeq(splitOn(oldText, NL), nonBlank))

\* An entry of the dist directory: its name, in the three parts the code
\* tells apart, and its content (Null when it cannot be read).
Entry(stem, id, ext, content) == [name |-> <<stem, id, ext>>, content |-> content]

\* e.startsWith("gateway-cli-") && e.endsWith(".js")
isBundle(entry) == entry.name[1] = "gateway-cli-" /\ entry.name[3] = ".js"

\* The name of the first of the files that includes the pattern.
RECURSIVE firstIncluding(_, _, _)
firstIncluding(files, pattern, i) ==
  IF i > Len(files) THEN Null
  ELSE IF Includes(files[i].content[1], pattern) THEN Some(files[i].name)
  ELSE firstIncluding(files, pattern, i + 1)

searchBundles(patterns, files) ==
  IF \E i \in 1..Len(files) : files[i].content = Null
  THEN <<>>
  ELSE [pattern \in {patterns[i] : i \in {j \in 1..Len(patterns) :
                                       firstIncluding(files, patterns[j], 1) # Null}}
          |-> firstIncluding(files, pattern, 1)[1]]

\* findPatternsInBundles without the filter on the names of the entries.
findPatternsInBundles_anyFile(patterns, dist) ==
  IF dist = Null THEN <<>> ELSE searchBundles(patterns, dist[1])

\* The map from the patterns found to the file each was found in; empty when
\* the directory or one of the bundle files cannot be read.
findPatternsInBundles(patterns, dist) ==
  IF dist = Null THEN <<>> ELSE searchBundles(patterns, SelectSeq(dist[1], isBundle))

\* A line of a file patch: what it starts with ("@@", "-", "+", " ", "" for
\* the empty line, "\\" for any other line) and the rest of it.
Line(kind, text) == [kind |-> kind, text |-> text]

\* lines.join("\n")
RECURSIVE joinLines(_)
joinLines(lines) ==
  IF lines = <<>> THEN <<>>
  ELSE IF Len(lines) = 1 THEN lines[1]
  ELSE lines[1] \o <<NL>> \o joinLines(Tail(lines))

DiffHunk(oldLines, newLines, sourcePath) ==
  [oldLines |-> oldLines, newLines |-> newLines, oldText |-> joinLines(oldLines),
   newText |-> joinLines(newLines), sourcePath |-> sourcePath]

createHunk(oldLines, newLines, sourcePath) == DiffHunk(oldLines, newLines, sourcePath)

\* contextBefore.slice(-3)
lastThree(lines) == SubSeq(lines, IF Len(lines) > 3 THEN Len(lines) - 2 ELSE 1, Len(lines))

\* flushHunk anchoring an insertion on all of the context before it.
flushHunk_wholeContext(st, filePath) ==
  IF st.oldLines = <<>> /\ st.newLines # <<>> /\ st.contextBefore # <<>>
  THEN [st EXCEPT !.hunks = Append(@, DiffHunk(st.contextBefore,
                                               st.contextBefore \o st.newLines,
                                               filePath))]
  ELSE IF st.oldLines # <<>>
  THEN [st EXCEPT !.hunks = Append(@, createHunk(st.oldLines, st.newLines, filePath))]
  ELSE st

\* flushHunk: the state of parsePRFilePatch with the pending change pushed.
flushHunk(st, filePath) ==
  IF st.oldLines = <<>> /\ st.newLines # <<>> /\ st.contextBefore # <<>>
  THEN [st EXCEPT !.hunks = Append(@, DiffHunk(lastThree(st.contextBefore),
                                               lastThree(st.contextBefore) \o st.newLines,
                                               filePath))]
  ELSE IF st.oldLines # <<>>
  THEN [st EXCEPT !.hunks = Append(@, createHunk(st.oldLines, st.newLines, filePath))]
  ELSE st

\* The body of the loop of parsePRFilePatch on one line.
parseLine(st, line, filePath) ==
  IF line.kind = "@@"
  THEN [flushHunk(st, filePath) EXCEPT !.inHunk = TRUE, !.oldLines = <<>>,
          !.newLines = <<>>, !.contextBefore = <<>>, !.seenChange = FALSE]
  ELSE IF ~st.inHunk THEN st
  ELSE IF line.kind = "-"
  THEN [st EXCEPT !.seenChange = TRUE, !.oldLines = Append(@, line.text)]
  ELSE IF line.kind = "+"
  THEN [st EXCEPT !.seenChange = TRUE, !.newLines = Append(@, line.text)]
  ELSE IF line.kind \in {" ", ""}
  THEN IF ~st.seenChange
       THEN [st EXCEPT !.contextBefore = Append(@, line.text)]
       ELSE [flushHunk(st, filePath) EXCEPT !.oldLines = <<>>, !.newLines = <<>>,
               !.seenChange = FALSE, !.contextBefore = <<line.text>>]
  ELSE st

RECURSIVE parseLines(_, _, _, _)
parseLines(st, lines, i, filePath) ==
  IF i > Len(lines) THEN flushHunk(st, filePath).hunks
  ELSE parseLines(parseLine(st, lines[i], filePath), lines, i + 1, filePath)

\* parsePRFilePatch on the lines of a patch.
parsePRFilePatch(lines, filePath) ==
  parseLines([hunks |-> <<>>, inHunk |-> FALSE, oldLines |-> <<>>, newLines |-> <<>>,
              contextBefore |-> <<>>, seenChange |-> FALSE],
             lines, 1, filePath)

\* A file of a pull request: its path and the lines of its patch (Null when
\* the file has no patch).
PRFile(path, ext, patch) == [path |-> <<path, ext>>, patch |-> patch]

applicable(file) == file.patch # Null /\ file.path[2] \in {".ts", ".js"}

RECURSIVE parsedHunks(_)
parsedHunks(files) ==
  IF files = <<>> THEN <<>>
  ELSE (IF applicable(Head(files))
        THEN parsePRFilePatch(Head(files).patch[1], Head(files).path)
        ELSE <<>>) \o parsedHunks(Tail(files))

\* preview without the cut.
preview_whole(oldText) == oldText

\* hunk.oldText.slice(0, 100) + (hunk.oldText.length > 100 ? "..." : "")
preview(oldText) ==
  slice(oldText, PreviewLength)
    \o (IF charLength(oldText) > PreviewLength THEN <<".", ".", ".">> ELSE <<>>)

UnmappedHunk(hunk) ==
  [sourcePath |-> hunk.sourcePath, oldText |-> preview(hunk.oldText),
   reason |-> "Pattern not found in any bundle file"]

\* config.openclawInstallDir, a path in segments: the default is absolute.
openclawInstallDir == <<"/opt/", "openclaw/">>

\* path.join(this.config.openclawInstallDir, "dist")
bundleDir == openclawInstallDir \o <<"dist/">>

\* f.replace(/gateway-cli-[^.]+\.js/, "gateway-cli-*.js") on the path of a
\* bundle relative to the install directory
targetFileOf(name) ==
  IF name[1] = "gateway-cli-" /\ name[3] = ".js" /\ name[2] # ""
  THEN <<"dist/", "gateway-cli-", "*", ".js">>
  ELSE <<"dist/">> \o name

\* Array.from of the set of target files: each once, in order of insertion.
RECURSIVE targetFilesOf(_, _, _)
targetFilesOf(hunks, found, seen) ==
  IF hunks = <<>> THEN <<>>
  ELSE IF found[findMinimalPattern(Head(hunks).oldText)] \in seen
  THEN targetFilesOf(Tail(hunks), found, seen)
  ELSE <<targetFileOf(found[findMinimalPattern(Head(hunks).oldText)])>>
         \o targetFilesOf(Tail(hunks), found,
                          seen \cup {found[findMinimalPattern(Head(hunks).oldText)]})

PRImportResult(success, text, unmapped, created) ==
  [success |-> success, message |-> text, unmappedHunks |-> unmapped,
   filesCreated |-> created]

\* What an import leaves: its result, the hunks it parsed and mapped, the
\* patch.json and patch file it wrote, and what it did under the patches
\* directory, in order.
Import(result, all, mapped, patchJson, patchFile, writes) ==
  [result |-> result, allHunks |-> all, mappedHunks |-> mapped,
   patchJson |-> patchJson, patchFile |-> patchFile, writes |-> writes]

\* A step of an import under the patches directory.
FsWrite(op, file) == [op |-> op, file |-> file]

PatchFileName(type) == IF type = "js" THEN "patch.js" ELSE "patch.diff"

importWritten(type, all, mapped, unmapped, found) ==
  Import(PRImportResult(TRUE, "Successfully created patch", unmapped,
                        <<"patch.json", PatchFileName(type), "pr-original.diff">>),
         all, mapped,
         Some([type |-> type, enabled |-> TRUE,
               targetFiles |-> targetFilesOf(mapped, found, {})]),
         Some(IF type = "diff"
              THEN [type |-> "diff",
                    text |-> hunksToSimpleFormat(
                               [i \in 1..Len(mapped) |->
                                  Hunk(mapped[i].oldText, mapped[i].newText)])]
              ELSE [type |-> "js", text |-> <<>>]),
         <<FsWrite("mkdir", "."), FsWrite("writeFile", "patch.json"),
           FsWrite("writeFile", PatchFileName(type)),
           FsWrite("writeFile", "pr-original.diff")>>)

\* importPartitioned without its test of dryRun.
importPartitioned_noDryRun(type, dryRun, all, mapped, unmapped, found) ==
  IF mapped = <<>>
  THEN Import(PRImportResult(FALSE, "None of the hunk(s) could be mapped", unmapped, <<>>),
              all, mapped, Null, Null, <<>>)
  ELSE importWritten(type, all, mapped, unmapped, found)

importPartitioned(type, dryRun, all, mapped, unmapped, found) ==
  IF mapped = <<>>
  THEN Import(PRImportResult(FALSE, "None of the hunk(s) could be mapped", unmapped, <<>>),
              all, mapped, Null, Null, <<>>)
  ELSE IF dryRun
  THEN Import(PRImportResult(TRUE, "[DRY RUN] Would create patch", unmapped,
                             <<"patch.json", PatchFileName(type), "pr-original.diff">>),
              all, mapped, Null, Null, <<>>)
  ELSE importWritten(type, all, mapped, unmapped, found)

importSearched(type, dryRun, all, found) ==
  importPartitioned(type, dryRun, all,
    SelectSeq(all, LAMBDA h : findMinimalPattern(h.oldText) \in DOMAIN found),
    [i \in 1..Len(SelectSeq(all, LAMBDA h : findMinimalPattern(h.oldText) \notin DOMAIN found))
       |-> UnmappedHunk(SelectSeq(all, LAMBDA h :
                          findMinimalPattern(h.oldText) \notin DOMAIN found)[i])],
    found)

importParsed(type, dryRun, all, dist) ==
  IF all = <<>>
  THEN Import(PRImportResult(FALSE, "No applicable code changes found in PR", <<>>, <<>>),
              all, <<>>, Null, Null, <<>>)
  ELSE importSearched(type, dryRun, all,
         findPatternsInBundles([i \in 1..Len(all) |-> findMinimalPattern(all[i].oldText)],
                               dist))

\* scaffoldFromPR: exists tells whether the patch directory is there, fetched
\* is what fetchPR returns (Null when it throws), dist is the listing of the
\* bundle directory (Null when it cannot be listed).
scaffoldFromPR(type, dryRun, exists, fetched, dist) ==
  IF exists
  THEN Import(PRImportResult(FALSE, "Patch already exists", <<>>, <<>>), <<>>, <<>>, Null, Null, <<>>)
  ELSE IF fetched = Null
  THEN Import(PRImportResult(FALSE, "fetchPR failed", <<>>, <<>>), <<>>, <<>>, Null, Null, <<>>)
  ELSE importParsed(type, dryRun, parsedHunks(fetched[1]), dist)

\* Bound of the import runs: the files of a pull request.
MaxPrFiles == 2

\* The lines of the import runs: a short word, another, an arrow line, a
\* long word, a long comment, a line of a hundred characters and a line of a
\* hundred and two.
TextA == <<"a">>
TextB == <<"b">>
TextArrow == <<" ", "=>", "a", " ">>
TextComment == <<"/", "/", Word20>>
Text100 == <<Word20, Word20, Word20, Word20, Word20>>
Text102 == <<"c", Word20, Word20, Word20, Word20, Word20, "c">>

Header == Line("@@", <<>>)
Context == Line(" ", <<"k">>)

\* The patches of the runs: no change; a for b; b for a; an empty line for a;
\* three changes, of which one removes a blank line and an arrow line and one
\* only removes; two changes with long lines; two with very long lines.
PrPatches ==
  {<<Header, Context>>,
   <<Header, Line("-", TextA), Line("+", TextB)>>,
   <<Header, Line("-", TextB), Line("+", TextA)>>,
   <<Header, Line("-", <<>>), Line("+", TextA)>>,
   <<Header, Line("-", TextA), Line("+", TextB), Context,
     Line("-", <<" ">>), Line("-", TextArrow), Line("+", TextA), Context,
     Line("-", TextB)>>,
   <<Header, Line("-", TextB), Line("-", <<Word20>>), Line("+", TextA),
     Header, Line("-", TextComment), Line("+", TextB)>>,
   <<Header, Line("-", Text100), Line("+", TextA), Context,
     Line("-", Text102), Line("+", TextB)>>}

PrFiles ==
  {PRFile("s", ".ts", Some(lines)) : lines \in PrPatches}
    \cup {PRFile("s", ".ts", Null),
          PRFile("s", ".md", Some(<<Header, Line("-", TextA), Line("+", TextB)>>)),
          PRFile("t", ".js", Some(<<Header, Line("-", TextA), Line("+", TextB)>>))}

\* The bundle directories of the runs.
Dists ==
  {Null,
   Some(<<>>),
   Some(<<Entry("gateway-cli-", "1", ".js", Some(<<>>))>>),
   Some(<<Entry("gateway-cli-", "1", ".js", Some(<<"x", "a", "=>", "a", Word20>>))>>),
   Some(<<Entry("index", "", ".js", Some(<<"a", "b">>)),
          Entry("gateway-cli-", "1", ".js", Some(<<"b">>)),
          Entry("gateway-cli-", "2", ".js", Some(<<"/", "/", Word20, "b">>))>>),
   Some(<<Entry("gateway-cli-", "1", ".js", Some(<<"a">>)),
          Entry("gateway-cli-", "2", ".js", Null)>>),
   Some(<<Entry("gateway-cli-", "1", ".js.map", Some(<<"a">>)),
          Entry("index", "", ".js", Some(<<"b">>))>>)}

ImportInit ==
  /\ EngineIdle
  /\ \E type \in {"diff", "js"}, dryRun \in BOOLEAN, exists \in BOOLEAN,
        fetched \in Optional(SeqsUpTo(PrFiles, MaxPrFiles)), dist \in Dists :
       /\ (exists \/ fetched = Null) => (dist = Null /\ fetched \in {Null, Some(<<>>)})
       /\ pure = [stage |-> "input", type |-> type, dryRun |-> dryRun, exists |-> exists,
               fetched |-> fetched, dist |-> dist, out |-> Null]

ScaffoldFromPR ==
  /\ pure.stage = "input"
  /\ pure' = [pure EXCEPT !.stage = "imported",
                !.out = Some(scaffoldFromPR(pure.type, pure.dryRun, pure.exists,
                                            pure.fetched, pure.dist))]
  /\ UNCHANGED EngineVars

SpecImport == ImportInit /\ [][ScaffoldFromPR]_vars

\* A readable bundle file of the directory that contains the minimal pattern
\* of the hunk, every bundle file of the directory being readable.
FoundInBundle(hunk, dist) ==
  /\ dist # Null
  /\ \A i \in 1..Len(dist[1]) : isBundle(dist[1][i]) => dist[1][i].content # Null
  /\ \E i \in 1..Len(dist[1]) :
       /\ isBundle(dist[1][i])
       /\ Includes(dist[1][i].content[1], findMinimalPattern(hunk.oldText))

\* C20: an import that gets to its hunks splits them in two: the mapped
\* hunks are, in order, the hunks whose minimal pattern is found in a bundle
\* file, the unmapped entries are, in order, those of the other hunks, so the
\* two lists together are as long as the list of parsed hunks; and the import
\* succeeds exactly when at least one hunk is mapped.
C20_Partition ==
  (pure.stage = "imported" /\ ~pure.exists /\ pure.fetched # Null) =>
    /\ pure.out[1].allHunks = parsedHunks(pure.fetched[1])
    /\ pure.out[1].mappedHunks
         = SelectSeq(pure.out[1].allHunks, LAMBDA h : FoundInBundle(h, pure.dist))
    /\ Len(pure.out[1].result.unmappedHunks)
         = Len(SelectSeq(pure.out[1].allHunks, LAMBDA h : ~FoundInBundle(h, pure.dist)))
    /\ \A i \in 1..Len(pure.out[1].result.unmappedHunks) :
         pure.out[1].result.unmappedHunks[i].sourcePath
           = SelectSeq(pure.out[1].allHunks,
                       LAMBDA h : ~FoundInBundle(h, pure.dist))[i].sourcePath
    /\ Len(pure.out[1].mappedHunks) + Len(pure.out[1].result.unmappedHunks)
         = Len(pure.out[1].allHunks)
    /\ pure.out[1].result.success = (Len(pure.out[1].mappedHunks) >= 1)

\* Three of the five hunks of a pull request were found in the bundle and
\* the import succeeded with two unmapped hunks.
C20_Witness ==
  /\ pure.stage = "imported"
  /\ Len(pure.out[1].allHunks) = 5
  /\ Len(pure.out[1].mappedHunks) = 3
  /\ Len(pure.out[1].result.unmappedHunks) = 2
  /\ pure.out[1].result.success


\* The hunks of an import that were not found, in order.
NotFound(out, dist) == SelectSeq(out.allHunks, LAMBDA h : ~FoundInBundle(h, dist))

\* p is the first characters of text: its tokens are those of text, the last
\* one possibly cut short.
IsCharPrefix(p, text) ==
  /\ Len(p) <= Len(text)
  /\ \A i \in 1..Len(p) :
       \/ p[i] = text[i]
       \/ (i = Len(p) /\ tokenLength(p[i]) < tokenLength(text[i])
           /\ p[i] = cut(text[i], tokenLength(p[i])))

\* C21 as stated: the preview of every unmapped entry is at most 100
\* characters long, whatever the length of the hunk's oldText, and its reason
\* is the fixed one.
C21_PreviewAtMost100 ==
  pure.stage = "imported" =>
    \A i \in 1..Len(pure.out[1].result.unmappedHunks) :
      /\ charLength(pure.out[1].result.unmappedHunks[i].oldText) <= PreviewLength
      /\ pure.out[1].result.unmappedHunks[i].reason = "Pattern not found in any bundle file"

\* C21 amended: the preview of every unmapped entry is the hunk's oldText when
\* that has at most 100 characters, and otherwise its first 100 characters
\* followed by three dots, 103 characters in all; its reason is the fixed one.
C21_PreviewTruncated ==
  (pure.stage = "imported" /\ ~pure.exists /\ pure.fetched # Null) =>
    \A i \in 1..Len(pure.out[1].result.unmappedHunks) :
      /\ pure.out[1].result.unmappedHunks[i].reason = "Pattern not found in any bundle file"
      /\ IF charLength(NotFound(pure.out[1], pure.dist)[i].oldText) <= PreviewLength
         THEN pure.out[1].result.unmappedHunks[i].oldText
                = NotFound(pure.out[1], pure.dist)[i].oldText
         ELSE \E p \in {SubSeq(pure.out[1].result.unmappedHunks[i].oldText, 1, k) :
                          k \in 0..Len(pure.out[1].result.unmappedHunks[i].oldText)} :
                /\ pure.out[1].result.unmappedHunks[i].oldText = p \o <<".", ".", ".">>
                /\ charLength(p) = PreviewLength
                /\ IsCharPrefix(p, NotFound(pure.out[1], pure.dist)[i].oldText)

\* A hunk whose oldText has 102 characters was not found, and its entry
\* carries a preview of 103 characters.
C21_Witness ==
  /\ pure.stage = "imported"
  /\ \E i \in 1..Len(pure.out[1].result.unmappedHunks) :
       /\ NotFound(pure.out[1], pure.dist)[i].oldText = Text102
       /\ charLength(pure.out[1].result.unmappedHunks[i].oldText) = PreviewLength + 3


\* C22: an import that fails (the patch directory exists, fetchPR throws, no
\* hunk is parsed, no hunk is mapped) returns success false with filesCreated
\* empty and does nothing under the patches directory; a dry run does nothing
\* there either, also when it succeeds; and only an import that succeeded
\* and was no dry run has written.
C22_FailedImportWritesNothing ==
  pure.stage = "imported" =>
    /\ ~pure.out[1].result.success =>
         /\ pure.out[1].result.filesCreated = <<>>
         /\ pure.out[1].writes = <<>>
         /\ pure.out[1].patchJson = Null
         /\ pure.out[1].patchFile = Null
    /\ (\/ pure.exists
        \/ pure.fetched = Null
        \/ pure.out[1].allHunks = <<>>
        \/ pure.out[1].mappedHunks = <<>>) => ~pure.out[1].result.success
    /\ pure.dryRun =>
         /\ pure.out[1].writes = <<>>
         /\ pure.out[1].patchJson = Null
         /\ pure.out[1].patchFile = Null
    /\ pure.out[1].writes # <<>> => (pure.out[1].result.success /\ ~pure.dryRun)

\* A dry run mapped a hunk, reported success and the files it would create,
\* and wrote nothing.
C22_Witness ==
  /\ pure.stage = "imported"
  /\ pure.dryRun
  /\ pure.out[1].result.success
  /\ pure.out[1].mappedHunks # <<>>
  /\ pure.out[1].result.filesCreated # <<>>
  /\ pure.out[1].writes = <<>>


\* Bound of the pattern runs: the tokens of an old text.
PatternTextLen == 3

\* findMinimalPattern on an old text of letters, blanks, line ends, arrows,
\* slashes and long words.
PatternInit ==
  /\ EngineIdle
  /\ \E t \in SeqsUpTo({"a", " ", NL, "=>", "/", Word20}, PatternTextLen) :
       pure = [stage |-> "input", oldText |-> t, out |-> <<>>]

FindMinimalPattern ==
  /\ pure.stage = "input"
  /\ pure' = [pure EXCEPT !.stage = "found", !.out = findMinimalPattern(pure.oldText)]
  /\ UNCHANGED EngineVars

SpecPattern == PatternInit /\ [][FindMinimalPattern]_vars

\* The non-blank lines of a text.
NonBlankLines(text) == SelectSeq(splitOn(text, NL), nonBlank)

HasMarker(line) == \E i \in 1..Len(line) : line[i] \in Keywords

IsLong(line) == charLength(trim(line)) >= MinLength

\* The first element of lines that satisfies Test.
FirstWhere(lines, Test(_)) ==
  lines[CHOOSE i \in 1..Len(lines) : Test(lines[i]) /\ \A j \in 1..(i - 1) : ~Test(lines[j])]

\* The line the stated priority selects, Null when the text has no non-blank
\* line.
SelectedLine(lines) ==
  IF \E i \in 1..Len(lines) : HasMarker(lines[i]) THEN Some(FirstWhere(lines, HasMarker))
  ELSE IF \E i \in 1..Len(lines) : IsLong(lines[i]) THEN Some(FirstWhere(lines, IsLong))
  ELSE IF lines # <<>> THEN Some(lines[1])
  ELSE Null

\* C23: findMinimalPattern returns (a) the first non-blank line with a
\* marker, whatever lines come before it; (b) when there is none, the first
\* non-blank line of at least minLength characters; (c) when there is none,
\* the first non-blank line; (d) when there is none, the first 100
\* characters of the text.  The line is returned trimmed (or, in (b) and (c),
\* as it stands).
C23_PatternPriority ==
  pure.stage = "found" =>
    IF SelectedLine(NonBlankLines(pure.oldText)) = Null
    THEN pure.out = slice(pure.oldText, PreviewLength)
    ELSE \/ pure.out = trim(SelectedLine(NonBlankLines(pure.oldText))[1])
         \/ (/\ ~HasMarker(SelectedLine(NonBlankLines(pure.oldText))[1])
             /\ pure.out = SelectedLine(NonBlankLines(pure.oldText))[1])


\* Bound of the parse runs: the lines of a file patch.
MaxPatchLines == 6

\* The lines of the parse runs: a header, a removed and an added line, a
\* context line, an empty line, and a line that is none of these.
PatchLines ==
  {Header, Line("-", TextA), Line("+", TextB), Line(" ", <<"c">>), Line("", <<>>),
   Line("\\", <<>>)}

ParseInit ==
  /\ EngineIdle
  /\ \E lines \in SeqsUpTo(PatchLines, MaxPatchLines) :
       pure = [stage |-> "input", lines |-> lines, out |-> <<>>]

ParsePRFilePatch ==
  /\ pure.stage = "input"
  /\ pure' = [pure EXCEPT !.stage = "parsed",
                !.out = parsePRFilePatch(pure.lines, <<"s", ".ts">>)]
  /\ UNCHANGED EngineVars

SpecParse == ParseInit /\ [][ParsePRFilePatch]_vars

IsChange(line) == line.kind \in {"-", "+"}

IsContext(line) == line.kind \in {" ", ""}

\* The lines the parser looks at: those from the first header on that are a
\* header, a change or context.
Visible(lines) ==
  SelectSeq([i \in 1..Len(lines) |->
               IF \E j \in 1..i : lines[j].kind = "@@" THEN lines[i] ELSE Line("\\", <<>>)],
            LAMBDA l : l.kind # "\\")

\* The last line of the change region that starts at line s.
RegionEnd(L, s) ==
  CHOOSE e \in s..Len(L) :
    /\ \A k \in s..e : IsChange(L[k])
    /\ (e = Len(L) \/ ~IsChange(L[e + 1]))

\* The number of context lines that directly precede line s.
ContextCount(L, s) ==
  CHOOSE n \in 0..(s - 1) :
    /\ \A k \in (s - n)..(s - 1) : IsContext(L[k])
    /\ ~IsContext(L[s - n - 1])

\* The texts of the lines of a kind among L[s..e].
TextsOf(L, s, e, kind) ==
  [i \in 1..Len(SelectSeq(SubSeq(L, s, e), LAMBDA l : l.kind = kind)) |->
     SelectSeq(SubSeq(L, s, e), LAMBDA l : l.kind = kind)[i].text]

Min(a, b) == IF a < b THEN a ELSE b

\* The context lines L[(s - n)..(s - 1)].
Anchor(L, s, n) == [i \in 1..n |-> L[s - n - 1 + i].text]

\* The hunks the change region that starts at line s stands for.
RegionHunks(L, s, filePath) ==
  IF TextsOf(L, s, RegionEnd(L, s), "-") # <<>>
  THEN <<DiffHunk(TextsOf(L, s, RegionEnd(L, s), "-"),
                  TextsOf(L, s, RegionEnd(L, s), "+"), filePath)>>
  ELSE IF ContextCount(L, s) = 0 THEN <<>>
  ELSE <<DiffHunk(Anchor(L, s, Min(3, ContextCount(L, s))),
                  Anchor(L, s, Min(3, ContextCount(L, s)))
                    \o TextsOf(L, s, RegionEnd(L, s), "+"),
                  filePath)>>

RECURSIVE HunksFrom(_, _, _)
HunksFrom(L, s, filePath) ==
  IF s > Len(L) THEN <<>>
  ELSE IF IsChange(L[s]) /\ ~IsChange(L[s - 1])
  THEN RegionHunks(L, s, filePath) \o HunksFrom(L, s + 1, filePath)
  ELSE HunksFrom(L, s + 1, filePath)

\* C24: parsePRFilePatch returns, in order, one hunk for each change region
\* (a run of removed and added lines) that has one: a region with removed
\* lines gives the removed and the added lines; a region of added lines only
\* gives, as old lines, the last min(3, n) of the n context lines that
\* directly precede it since the header or the previous region, and as new
\* lines those followed by the added lines; with no such context line it
\* gives no hunk.  Every hunk has at least one old line, its texts are its
\* lines joined, and there are no more hunks than regions.
C24_InsertionAnchored ==
  pure.stage = "parsed" =>
    /\ pure.out = HunksFrom(Visible(pure.lines), 2, <<"s", ".ts">>)
    /\ \A i \in 1..Len(pure.out) :
         /\ pure.out[i].oldLines # <<>>
         /\ pure.out[i].oldText = joinLines(pure.out[i].oldLines)
         /\ pure.out[i].newText = joinLines(pure.out[i].newLines)
    /\ Len(pure.out)
         <= Cardinality({s \in 2..Len(Visible(pure.lines)) :
                           IsChange(Visible(pure.lines)[s])
                           /\ ~IsChange(Visible(pure.lines)[s - 1])})

\* An added line after four context lines became a hunk whose old lines are
\* the last three of them.
C24_Witness ==
  /\ pure.stage = "parsed"
  /\ pure.lines = <<Header, Line(" ", <<"c">>), Line("", <<>>), Line(" ", <<"c">>),
                    Line(" ", <<"c">>), Line("+", TextB)>>
  /\ pure.out = <<DiffHunk(<< <<>>, <<"c">>, <<"c">> >>,
                           << <<>>, <<"c">>, <<"c">>, TextB >>, <<"s", ".ts">>)>>


\* The engine on the patch an import wrote.  A path is a list of directory
\* segments followed by the three parts of a file name; the install tree
\* holds the directory dist and nothing else.

\* path.dirname and path.basename of a pattern
dirname(pattern) == SubSeq(pattern, 1, Len(pattern) - 3)

basename(pattern) == SubSeq(pattern, Len(pattern) - 2, Len(pattern))

\* readdir of path.join(openclawInstallDir, dir): the entries of dist, none
\* when the directory is not there.
entriesOf(dir, dist) ==
  IF openclawInstallDir \o dir = bundleDir /\ dist # Null THEN dist[1] ELSE <<>>

\* resolveTargetFiles over the install tree: the entries each pattern matches.
RECURSIVE resolveIn(_, _)
resolveIn(patterns, dist) ==
  IF patterns = <<>> THEN <<>>
  ELSE SelectSeq(entriesOf(dirname(Head(patterns)), dist),
                 LAMBDA e : matchGlob(e.name, basename(Head(patterns))))
       \o resolveIn(Tail(patterns), dist)

\* checkPatch on the diff patch of an import: the record is readable,
\* enabled, unresolved and without a version range.
checkImported(patchJson, patchFile, dist) ==
  IF resolveIn(patchJson.targetFiles, dist) = <<>>
  THEN Status("imported", Some(patchJson), "error", Msg("No files matched patterns", <<>>))
  ELSE checkDiffHunks([tree |-> [n \in {e.name : e \in {dist[1][i] : i \in 1..Len(dist[1])}} |->
                                   (CHOOSE e \in {dist[1][i] : i \in 1..Len(dist[1])} :
                                      e.name = n).content[1]],
                       io |-> <<>>],
                      "imported", patchJson,
                      [i \in 1..Len(resolveIn(patchJson.targetFiles, dist)) |->
                         resolveIn(patchJson.targetFiles, dist)[i].name],
                      parseDiffHunks(patchFile.text)).status

\* C38: the patch.diff an import wrote parses to at least one hunk, and
\* checkPatch on the written patch, against the install tree the import
\* searched, returns pending.
C38_ImportedIsPending ==
  (/\ pure.stage = "imported"
   /\ pure.type = "diff"
   /\ ~pure.dryRun
   /\ pure.out[1].result.success)
    => /\ parseDiffHunks(pure.out[1].patchFile[1].text) # <<>>
       /\ checkImported(pure.out[1].patchJson[1], pure.out[1].patchFile[1], pure.dist).state
            = "pending"


\* How often the last operation did op on file f for patch p.
Times(op, p, f) == Cardinality({i \in 1..Len(last.io) : last.io[i] = Ev(op, p, f)})

\* The list has no entry twice.
NoDuplicates(s) == \A i, j \in 1..Len(s) : s[i] = s[j] => i = j

\* C37: an applyPatch writes each target file at most once and backs it up
\* at most once, whatever the entries of targetFiles match; and the
\* targetFiles list of the patch.json an import writes has no pattern twice.
C37_OncePerFile ==
  /\ last.op = "applyPatch" =>
       \A f \in FileNames :
         /\ Times("writeTarget", last.arg, f) <= 1
         /\ Times("writeBak", last.arg, f) <= 1
  /\ (DOMAIN pure # {} /\ pure.stage = "imported" /\ pure.out[1].patchJson # Null)
       => NoDuplicates(pure.out[1].patchJson[1].targetFiles)


\* ------------------------------------------------------ hunk round trip

\* Texts of one or more lines, and two texts that hold a marker line.
RtTexts == UNION {[1..k -> {"a", NL}] : k \in 0..RtMaxText}
             \cup {<<NL, AFTER>>, <<NL, END>>}

RoundTripInit ==
  /\ EngineIdle
  /\ \E hs \in SeqsUpTo(Hunks(RtTexts), RtMaxHunks) :
       pure = [stage |-> "input", hunks |-> hs, text |-> <<>>, parsed |-> <<>>]

Serialize ==
  /\ pure.stage = "input"
  /\ pure' = [pure EXCEPT !.stage = "serialized", !.text = hunksToSimpleFormat(pure.hunks)]
  /\ UNCHANGED EngineVars

Parse ==
  /\ pure.stage = "serialized"
  /\ pure' = [pure EXCEPT !.stage = "parsed", !.parsed = parseDiffHunks(pure.text)]
  /\ UNCHANGED EngineVars

RoundTripNext == Serialize \/ Parse

SpecRoundTrip == RoundTripInit /\ [][RoundTripNext]_vars

\* A hunk the block format carries unchanged: its oldText is not empty and
\* holds no "\n=== AFTER ===", its newText holds no "\n=== END ===".
Carried(h) ==
  /\ h.oldText # <<>>
  /\ ~Includes(h.oldText, <<NL, AFTER>>)
  /\ ~Includes(h.newText, <<NL, END>>)

\* C10 as stated: serializing any list of hunks and parsing the result gives
\* the same list.
C10_RoundTripAll ==
  pure.stage = "parsed" => pure.parsed = pure.hunks

\* C10 amended: serializing a list of carried hunks and parsing the result
\* gives the same list, multi-line texts included.
C10_RoundTripCarried ==
  (pure.stage = "parsed" /\ \A i \in 1..Len(pure.hunks) : Carried(pure.hunks[i]))
    => pure.parsed = pure.hunks

\* Two carried hunks, one of them with a line feed in its text, went round.
C10_Witness ==
  /\ pure.stage = "parsed"
  /\ Len(pure.hunks) = 2
  /\ \A i \in 1..2 : Carried(pure.hunks[i])
  /\ \E i \in 1..2 : Includes(pure.hunks[i].oldText, <<NL>>)
  /\ \E i \in 1..2 : pure.hunks[i].newText = <<>>
  /\ pure.parsed = pure.hunks


====
